---- MODULE Spec2Model ----
(***************************************************************************)
(* A model of certimate's certificate orchestration code:                  *)
(*   - the ACME issuance driver (internal/certapply/client_certifier.go),  *)
(*   - the ctyun upload-dedup providers (ctyun-ao and ctyun-elb Upload),   *)
(*   - the tencentcloud-cdn deployer (Deploy: submit and poll),            *)
(*   - the LeCDN SDK client (its cached access token),                     *)
(*   - several ObtainCertificate calls sharing a client or a process,      *)
(*   - CertificateRepository.DeleteWhere and the cleanup that calls it.    *)
(* Each part has its own specification; the variables of the other parts   *)
(* stay at their initial values.                                           *)
(***************************************************************************)
EXTENDS Integers, Sequences, FiniteSets, TLC

\* Go's nil error (and the unset value of a string-typed variable).
Nil == "nil"

\* Go's nil pointer to a struct (a nil request, a nil response).
NilPtr == [nil |-> TRUE]

VARIABLES
    \* ---- ACMEClient.ObtainCertificate / RevokeCertificate
    op,          \* which method the caller invoked: "obtain" or "revoke"
    request,     \* the request argument (Nil for a nil pointer)
    ctxDone,     \* whether ctx.Done() is closed
    callPc,      \* the caller: "init", "select", "returned"
    callRet,     \* what the call returned: [res, err]
    bgPc,        \* the goroutine: "none", "start", "challenge", "obtain",
                 \* "retry", "send", "finished"
    bgRet,       \* the (res, err) the goroutine got from send...Request
    done,        \* the buffered channel `done` (capacity 1), as a sequence
    req,         \* the certificate.ObtainRequest being sent
    obtainLog,   \* every c.client.Certificate.Obtain call: [req, outcome]
    revokeLog,   \* every c.client.Certificate.Revoke call: [cert, outcome]
    legoEnv,     \* the process environment's LEGO_DISABLE_CNAME_SUPPORT
    solver,      \* the challenge provider set on c.client.Challenge
    factoryCalls, \* how often a challenge-provider constructor was invoked
    events,      \* the order in which things happened: "cancel" (ctx),
                 \* "obtain" (a CA Obtain answered), "revoke", "delivered"
                 \* (the send on `done`), "returned" (the caller)
    \* ---- tencentcloud-cdn DeployerProvider.Deploy
    domain,        \* d.config.Domain, as its sequence of labels
    deployCtxDone, \* whether Deploy's ctx.Done() is closed
    deployPc,      \* "upload", "resolve", "filter", "targets", "loop",
                   \* "polling", "sleep", "returned"
    upres,         \* the uploader's result (its CertId)
    instanceIds,   \* the local instanceIds
    submitLog,     \* every ssl.DeployCertificateInstance call
    pollLog,       \* every answered ssl.DescribeHostDeployRecordDetail call
    resolveCalls,  \* how often cdn.DescribeCertDomains was called
    deployRet,     \* what Deploy returned: [res, err]
    sleeps,        \* how often time.Sleep was called in the poll loop
    deployedLog,   \* every getDeployedDomainsByCertificateId call:
                   \* [cloudCertId, domains, err]
    candidateIds,  \* instanceIds as it was before the already-deployed
                   \* filter (line 103)
    resolveLog,    \* every getDomainsByCertificateId call:
                   \* [cloudCertId, domains, err]
    vendor,        \* what an earlier Deploy run left at the vendor: the
                   \* certificate's id, the domains it is eligible for and
                   \* the domains it is deployed to (NilPtr: no such run)
    \* ---- ctyun-ao / ctyun-elb SSLManagerProvider.Upload
    provider,      \* which provider's Upload runs: "ao" or "elb"
    store,         \* the vendor's certificate store, in listing order
    certPEM,       \* per Upload call: the certPEM argument
    uploadCtxDone, \* per Upload call: whether its ctx.Done() is closed
    uploadPc,      \* per Upload call: "idle", "list", "query", "create",
                   \* "returned", "panicked"
    listCertPage,  \* per Upload call: the local listCertPage
    listCertsResp, \* per Upload call: the page being examined
    candidate,     \* per Upload call: the index in the page of certRecord
    uploadRet,     \* per Upload call: what it returned: [res, err]
    now,           \* the last time.Now().UnixMilli() read
    listLog,       \* every ListCerts / ListCertificates call
    queryLog,      \* every ao.QueryCert call
    createLog,     \* every CreateCert / CreateCertificate call, with the
                   \* number of records the store held when it was made
    \* ---- lecdn Client
    accessToken,     \* Client.accessToken ("" until a login stored one)
    accessTokenMtx,  \* Client.accessTokenMtx: 0 when unlocked, else the
                     \* goroutine that holds it
    clientPc,        \* where each goroutine using the client stands
    authorization,   \* the Authorization header of each goroutine's request
    apiCalls,        \* API calls started so far
    \* ---- several ObtainCertificate calls in one process
    runs,            \* each call: its client, request, context, the
                     \* caller's and the goroutine's position, its channel
                     \* and what it returned
    solvers,         \* each client's c.client.Challenge: the solver set
                     \* for each challenge type
    cnameSupportEnv, \* the process's LEGO_DISABLE_CNAME_SUPPORT
    runObtainLog,    \* every Certificate.Obtain call: the run, and the
                     \* solvers and the environment it ran with
    \* ---- CertificateRepository.DeleteWhere
    collection,      \* the certificate collection: the ids of its records
    del              \* cleanupExpiredCertificates and its DeleteWhere call:
                     \* position, locals, results, and what happened


certVars == <<op, request, ctxDone, callPc, callRet, bgPc, bgRet, done, req,
              obtainLog, revokeLog, legoEnv, solver, factoryCalls, events>>

deployVars == <<domain, deployCtxDone, deployPc, upres, instanceIds,
                submitLog, pollLog, resolveCalls, deployRet, sleeps,
                deployedLog, candidateIds, resolveLog, vendor>>

uploadVars == <<provider, store, certPEM, uploadCtxDone, uploadPc,
                listCertPage, listCertsResp, candidate, uploadRet, now,
                listLog, queryLog, createLog>>

clientVars == <<accessToken, accessTokenMtx, clientPc, authorization,
                apiCalls>>

runVars == <<runs, solvers, cnameSupportEnv, runObtainLog>>

deleteVars == <<collection, del>>

vars == <<certVars, deployVars, uploadVars, clientVars, runVars, deleteVars>>

\* What the actions of one part leave alone.
otherThanCert == <<deployVars, uploadVars, clientVars, runVars, deleteVars>>
otherThanDeploy == <<certVars, uploadVars, clientVars, runVars, deleteVars>>
otherThanUpload == <<certVars, deployVars, clientVars, runVars, deleteVars>>
otherThanClient == <<certVars, deployVars, uploadVars, runVars, deleteVars>>
otherThanRuns == <<certVars, deployVars, uploadVars, clientVars, deleteVars>>
otherThanDelete == <<certVars, deployVars, uploadVars, clientVars, runVars>>

(***************************************************************************)
(* ACME issuance driver                                                    *)
(***************************************************************************)

\* c.account.ACMEAcctUrl: the account the client is bound to.
ACMEAcctUrl == "acct-1"

\* The requests a caller may pass to ObtainCertificate.
ObtainCertificateRequest ==
    [Domains: {<<"a.com">>, <<"a.com", "b.com">>},
     ChallengeType: {"dns-01", "http-01", "tls-alpn-01"},
     Provider: {"registered", "unregistered"},
     DisableFollowCNAME: BOOLEAN,
     ACMEProfile: {"classic"},
     ValidityTo: {0},
     ARIReplacesAcctUrl: {"acct-1", "acct-2"},
     ARIReplacesCertId: {"", "cert-0"}]

\* The requests a caller may pass to RevokeCertificate.
RevokeCertificateRequest == [Certificate: {"pem"}]

\* ctx.Err() once the context is cancelled.
CtxErr == "context canceled"

\* What the CA answers to an Obtain: a certificate, the ARI "already
\* replaced" conflict (acme.AlreadyReplacedError), or any other error.
ObtainOutcomes == {"ok", "alreadyReplaced", "error"}

\* What the CA answers to a Revoke.
RevokeOutcomes == {"ok", "error"}

\* applicators.ACME{Dns01,Http01}Registries.Get: an error for an identifier
\* nothing was registered under.
RegistryGet(id) == IF id = "registered" THEN "factory" ELSE Nil

\* lo.If(request.ARIReplacesAcctUrl == c.account.ACMEAcctUrl,
\*       request.ARIReplacesCertId).Else("")
ReplacesCertIDAnyAccount(r) == r.ARIReplacesCertId
ReplacesCertID(r) ==
    IF r.ARIReplacesAcctUrl = ACMEAcctUrl THEN r.ARIReplacesCertId ELSE ""

\* req := certificate.ObtainRequest{...}
ObtainRequest(r) ==
    [Domains |-> r.Domains, Bundle |-> TRUE, Profile |-> r.ACMEProfile,
     NotAfter |-> r.ValidityTo, ReplacesCertID |-> ReplacesCertID(r)]

\* req.ReplacesCertID = "" before the retry.
KeepARI(q) == q
ResetARI(q) == [q EXCEPT !.ReplacesCertID = ""]

\* The ObtainCertificateResponse built from a successful Obtain of q.
ObtainCertificateResponse(q) ==
    [res |-> [Certificate |-> "issued", ACMEAcctUrl |-> ACMEAcctUrl,
              ARIReplaced |-> (q.ReplacesCertID # "")],
     err |-> Nil]

\* strconv.FormatBool
FormatBool(b) == IF b THEN "true" ELSE "false"

\* A (nil, err) return.
Failure(e) == [res |-> NilPtr, err |-> e]

\* ObtainCertificate / RevokeCertificate up to the select: make the channel,
\* start the goroutine.
Call ==
    /\ callPc = "init"
    /\ \E o \in {"obtain", "revoke"} :
         /\ op' = o
         /\ request' \in (IF o = "obtain" THEN ObtainCertificateRequest
                          ELSE RevokeCertificateRequest) \cup {NilPtr}
    /\ done' = <<>>
    /\ bgPc' = "start"
    /\ callPc' = "select"
    /\ UNCHANGED <<ctxDone, callRet, bgRet, req, obtainLog, revokeLog,
                   legoEnv, solver, factoryCalls>>
    /\ UNCHANGED events
    /\ UNCHANGED otherThanCert

\* The caller's context is cancelled (by its owner, at any time).
Cancel ==
    /\ ~ctxDone
    /\ ctxDone' = TRUE
    /\ UNCHANGED <<op, request, callPc, callRet, bgPc, bgRet, done, req,
                   obtainLog, revokeLog, legoEnv, solver, factoryCalls>>
    /\ events' = Append(events, "cancel")
    /\ UNCHANGED otherThanCert

\* select { case <-ctx.Done(): return nil, ctx.Err() }
SelectCancelAfterRequest ==
    /\ callPc = "select"
    /\ ctxDone
    /\ bgPc = "finished"
    /\ callRet' = Failure(CtxErr)
    /\ callPc' = "returned"
    /\ UNCHANGED <<op, request, ctxDone, bgPc, bgRet, done, req, obtainLog,
                   revokeLog, legoEnv, solver, factoryCalls>>
    /\ events' = Append(events, "returned")
    /\ UNCHANGED otherThanCert
SelectCancel ==
    /\ callPc = "select"
    /\ ctxDone
    /\ callRet' = Failure(CtxErr)
    /\ callPc' = "returned"
    /\ UNCHANGED <<op, request, ctxDone, bgPc, bgRet, done, req, obtainLog,
                   revokeLog, legoEnv, solver, factoryCalls>>
    /\ events' = Append(events, "returned")
    /\ UNCHANGED otherThanCert

\* select { case r := <-done: return r.res, r.err }
SelectDone ==
    /\ callPc = "select"
    /\ Len(done) > 0
    /\ callRet' = Head(done)
    /\ done' = Tail(done)
    /\ callPc' = "returned"
    /\ UNCHANGED <<op, request, ctxDone, bgPc, bgRet, req, obtainLog,
                   revokeLog, legoEnv, solver, factoryCalls>>
    /\ events' = Append(events, "returned")
    /\ UNCHANGED otherThanCert

\* sendObtainCertificateRequest: the nil check and os.Setenv.
BgObtainStart ==
    /\ bgPc = "start"
    /\ op = "obtain"
    /\ IF request = NilPtr
       THEN /\ bgRet' = Failure("the request is nil")
            /\ bgPc' = "send"
            /\ UNCHANGED legoEnv
       ELSE /\ legoEnv' = FormatBool(request.DisableFollowCNAME)
            /\ bgPc' = "challenge"
            /\ UNCHANGED bgRet
    /\ UNCHANGED <<op, request, ctxDone, callPc, callRet, done, req,
                   obtainLog, revokeLog, solver, factoryCalls>>
    /\ UNCHANGED events
    /\ UNCHANGED otherThanCert

\* sendObtainCertificateRequest: the switch on the challenge type (registry
\* lookup, provider constructor, Set...Provider) and the ObtainRequest.
BgChallengeNoDefault ==
    /\ bgPc = "challenge"
    /\ IF request.ChallengeType \in {"dns-01", "http-01"}
          /\ RegistryGet(request.Provider) = Nil
       THEN /\ bgRet' = Failure("provider not registered")
            /\ bgPc' = "send"
            /\ UNCHANGED <<req, solver, factoryCalls>>
       ELSE IF request.ChallengeType \notin {"dns-01", "http-01"}
       THEN /\ req' = ObtainRequest(request)
            /\ bgPc' = "obtain"
            /\ UNCHANGED <<bgRet, solver, factoryCalls>>
       ELSE /\ factoryCalls' = factoryCalls + 1
            /\ \E built \in BOOLEAN :
                 IF ~built
                 THEN /\ bgRet' = Failure("failed to initialize provider")
                      /\ bgPc' = "send"
                      /\ UNCHANGED <<req, solver>>
                 ELSE /\ solver' = [type |-> request.ChallengeType,
                                    provider |-> request.Provider]
                      /\ req' = ObtainRequest(request)
                      /\ bgPc' = "obtain"
                      /\ UNCHANGED bgRet
    /\ UNCHANGED <<op, request, ctxDone, callPc, callRet, done, obtainLog,
                   revokeLog, legoEnv>>
    /\ UNCHANGED events
    /\ UNCHANGED otherThanCert
BgChallenge ==
    /\ bgPc = "challenge"
    /\ IF request.ChallengeType \notin {"dns-01", "http-01"}
       THEN /\ bgRet' = Failure("unsupported challenge type")
            /\ bgPc' = "send"
            /\ UNCHANGED <<req, solver, factoryCalls>>
       ELSE IF RegistryGet(request.Provider) = Nil
       THEN /\ bgRet' = Failure("provider not registered")
            /\ bgPc' = "send"
            /\ UNCHANGED <<req, solver, factoryCalls>>
       ELSE /\ factoryCalls' = factoryCalls + 1
            /\ \E built \in BOOLEAN :
                 IF ~built
                 THEN /\ bgRet' = Failure("failed to initialize provider")
                      /\ bgPc' = "send"
                      /\ UNCHANGED <<req, solver>>
                 ELSE /\ solver' = [type |-> request.ChallengeType,
                                    provider |-> request.Provider]
                      /\ req' = ObtainRequest(request)
                      /\ bgPc' = "obtain"
                      /\ UNCHANGED bgRet
    /\ UNCHANGED <<op, request, ctxDone, callPc, callRet, done, obtainLog,
                   revokeLog, legoEnv>>
    /\ UNCHANGED events
    /\ UNCHANGED otherThanCert

\* resp, err := c.client.Certificate.Obtain(req), and the ARI check.
BgObtainRetriesAll ==
    /\ bgPc = "obtain"
    /\ \E o \in ObtainOutcomes :
         /\ obtainLog' = Append(obtainLog, [req |-> req, outcome |-> o])
         /\ IF o = "ok"
            THEN /\ bgRet' = ObtainCertificateResponse(req)
                 /\ bgPc' = "send"
                 /\ UNCHANGED req
            ELSE /\ req' = ResetARI(req)
                 /\ bgPc' = "retry"
                 /\ UNCHANGED bgRet
    /\ UNCHANGED <<op, request, ctxDone, callPc, callRet, done, revokeLog,
                   legoEnv, solver, factoryCalls>>
    /\ events' = Append(events, "obtain")
    /\ UNCHANGED otherThanCert
BgObtainUnlessCancelled ==
    /\ bgPc = "obtain"
    /\ ~ctxDone
    /\ \E o \in ObtainOutcomes :
         /\ obtainLog' = Append(obtainLog, [req |-> req, outcome |-> o])
         /\ CASE o = "ok" ->
                   /\ bgRet' = ObtainCertificateResponse(req)
                   /\ bgPc' = "send"
                   /\ UNCHANGED req
              [] o = "error" ->
                   /\ bgRet' = Failure("error")
                   /\ bgPc' = "send"
                   /\ UNCHANGED req
              [] o = "alreadyReplaced" ->
                   /\ req' = ResetARI(req)
                   /\ bgPc' = "retry"
                   /\ UNCHANGED bgRet
    /\ UNCHANGED <<op, request, ctxDone, callPc, callRet, done, revokeLog,
                   legoEnv, solver, factoryCalls>>
    /\ events' = Append(events, "obtain")
    /\ UNCHANGED otherThanCert
BgObtain ==
    /\ bgPc = "obtain"
    /\ \E o \in ObtainOutcomes :
         /\ obtainLog' = Append(obtainLog, [req |-> req, outcome |-> o])
         /\ CASE o = "ok" ->
                   /\ bgRet' = ObtainCertificateResponse(req)
                   /\ bgPc' = "send"
                   /\ UNCHANGED req
              [] o = "error" ->
                   /\ bgRet' = Failure("error")
                   /\ bgPc' = "send"
                   /\ UNCHANGED req
              [] o = "alreadyReplaced" ->
                   /\ req' = ResetARI(req)
                   /\ bgPc' = "retry"
                   /\ UNCHANGED bgRet
    /\ UNCHANGED <<op, request, ctxDone, callPc, callRet, done, revokeLog,
                   legoEnv, solver, factoryCalls>>
    /\ events' = Append(events, "obtain")
    /\ UNCHANGED otherThanCert

\* resp, err = c.client.Certificate.Obtain(req): the retry without ARI.
BgRetryAgain ==
    /\ bgPc = "retry"
    /\ \E o \in ObtainOutcomes :
         /\ obtainLog' = Append(obtainLog, [req |-> req, outcome |-> o])
         /\ CASE o = "ok" ->
                   /\ bgRet' = ObtainCertificateResponse(req)
                   /\ bgPc' = "send"
              [] o = "error" ->
                   /\ bgRet' = Failure(o)
                   /\ bgPc' = "send"
              [] o = "alreadyReplaced" ->
                   /\ Len(obtainLog) < 3
                   /\ bgPc' = "retry"
                   /\ UNCHANGED bgRet
    /\ UNCHANGED <<op, request, ctxDone, callPc, callRet, done, req,
                   revokeLog, legoEnv, solver, factoryCalls>>
    /\ events' = Append(events, "obtain")
    /\ UNCHANGED otherThanCert
BgRetry ==
    /\ bgPc = "retry"
    /\ \E o \in ObtainOutcomes :
         /\ obtainLog' = Append(obtainLog, [req |-> req, outcome |-> o])
         /\ bgRet' = IF o = "ok" THEN ObtainCertificateResponse(req)
                     ELSE Failure(o)
         /\ bgPc' = "send"
    /\ UNCHANGED <<op, request, ctxDone, callPc, callRet, done, req,
                   revokeLog, legoEnv, solver, factoryCalls>>
    /\ events' = Append(events, "obtain")
    /\ UNCHANGED otherThanCert

\* sendRevokeCertificateRequest.
BgRevoke ==
    /\ bgPc = "start"
    /\ op = "revoke"
    /\ IF request = NilPtr
       THEN /\ bgRet' = Failure("the request is nil")
            /\ UNCHANGED <<revokeLog, events>>
       ELSE \E o \in RevokeOutcomes :
              /\ revokeLog' = Append(revokeLog,
                                     [cert |-> request.Certificate,
                                      outcome |-> o])
              /\ events' = Append(events, "revoke")
              /\ bgRet' = IF o = "ok" THEN [res |-> [revoked |-> TRUE], err |-> Nil]
                          ELSE Failure(o)
    /\ bgPc' = "send"
    /\ UNCHANGED <<op, request, ctxDone, callPc, callRet, done, req,
                   obtainLog, legoEnv, solver, factoryCalls>>
    /\ UNCHANGED otherThanCert

\* done <- result{res, err}: blocks while the buffer (capacity 1) is full.
BgSendUnbuffered ==
    /\ bgPc = "send"
    /\ callPc = "select"
    /\ done' = Append(done, bgRet)
    /\ bgPc' = "finished"
    /\ UNCHANGED <<op, request, ctxDone, callPc, callRet, bgRet, req,
                   obtainLog, revokeLog, legoEnv, solver, factoryCalls>>
    /\ events' = Append(events, "delivered")
    /\ UNCHANGED otherThanCert
BgSend ==
    /\ bgPc = "send"
    /\ Len(done) < 1
    /\ done' = Append(done, bgRet)
    /\ bgPc' = "finished"
    /\ UNCHANGED <<op, request, ctxDone, callPc, callRet, bgRet, req,
                   obtainLog, revokeLog, legoEnv, solver, factoryCalls>>
    /\ events' = Append(events, "delivered")
    /\ UNCHANGED otherThanCert

CertInit ==
    /\ op = Nil
    /\ request = NilPtr
    /\ ctxDone = FALSE
    /\ callPc = "init"
    /\ callRet = [res |-> NilPtr, err |-> Nil]
    /\ bgPc = "none"
    /\ bgRet = [res |-> NilPtr, err |-> Nil]
    /\ done = <<>>
    /\ req = NilPtr
    /\ obtainLog = <<>>
    /\ revokeLog = <<>>
    /\ legoEnv = Nil
    /\ solver = NilPtr
    /\ factoryCalls = 0
    /\ events = <<>>

CertNext ==
    \/ Call
    \/ Cancel
    \/ SelectCancel
    \/ SelectDone
    \/ BgObtainStart
    \/ BgChallenge
    \/ BgObtain
    \/ BgRetry
    \/ BgRevoke
    \/ BgSend

(***************************************************************************)
(* tencentcloud-cdn deployer                                               *)
(***************************************************************************)

\* The number of polls one Deploy run of the model issues at most.
MaxPolls == 3

\* Domain names, as their sequences of labels ("*.a.com" is <<"*","a","com">>).
WildcardDomain == <<"*", "a", "com">>
CdnDomain == <<"cdn", "a", "com">>
ImgDomain == <<"img", "a", "com">>

\* The values d.config.Domain takes.
ConfigDomains == {WildcardDomain, CdnDomain, <<"*">>}

\* The domain lists the vendor's queries answer with.
DomainLists ==
    {<<>>, <<CdnDomain>>, <<ImgDomain>>, <<CdnDomain, ImgDomain>>,
     <<ImgDomain, CdnDomain>>}

\* strings.HasPrefix(s, "*."): the first label is "*" and a label follows.
HasStar(s) == s[1] = "*"
HasWildcardPrefix(s) == Len(s) >= 2 /\ s[1] = "*"

\* slices.Contains
ContainsFirst(list, x) == Len(list) > 0 /\ list[1] = x
Contains(list, x) == \E i \in 1..Len(list) : list[i] = x

\* The loop over instanceIds that keeps what deployedDomains does not hold.
SkipNothing(ids, deployedDomains) == ids
SkipDeployed(ids, deployedDomains) ==
    SelectSeq(ids, LAMBDA id : ~Contains(deployedDomains, id))

\* A *int64 of the SDK's response: <<>> is nil, <<n>> points to n.
NilCount == <<>>
Ptr(n) == <<n>>

\* `if p != nil { count = *p }` over a count declared as 0.
CountOf(p) == IF p = NilCount THEN 0 ELSE p[1]

\* A DescribeHostDeployRecordDetail response.
Detail(running, succeeded, failed, total) ==
    [err |-> Nil, running |-> running, succeeded |-> succeeded,
     failed |-> failed, total |-> total]

\* The job as first created: every count is 0.
NotPopulated == Detail(Ptr(0), Ptr(0), Ptr(0), Ptr(0))

\* Three targets succeeded and two failed, of five.
PartlyFailed == Detail(Ptr(0), Ptr(3), Ptr(2), Ptr(5))

\* The responses the vendor may give to a poll.
PollResponses ==
    {NotPopulated, PartlyFailed,
     Detail(Ptr(2), Ptr(0), Ptr(0), Ptr(2)),
     Detail(Ptr(1), Ptr(1), Ptr(0), Ptr(2)),
     Detail(Ptr(0), Ptr(2), Ptr(0), Ptr(2)),
     Detail(Ptr(0), Ptr(0), Ptr(2), Ptr(2)),
     Detail(NilCount, NilCount, NilCount, Ptr(2)),
     Detail(NilCount, NilCount, NilCount, NilCount),
     Detail(Ptr(0), Ptr(2), Ptr(0), NilCount)}

\* A poll the SDK answered with an error.
PollError ==
    [err |-> "error", running |-> NilCount, succeeded |-> NilCount,
     failed |-> NilCount, total |-> NilCount]

\* return &deployer.DeployResult{}, nil
DeployResult == [res |-> [DeployResult |-> TRUE], err |-> Nil]

\* describeHostDeployRecordDetailResp.Response.TotalCount == nil
TotalMissingIgnored(r) == FALSE
TotalMissing(r) == r.total = NilCount

\* succeededCount+failedCount == totalCount
JobEndedNoneRunning(r) == CountOf(r.running) = 0
JobEnded(r) ==
    CountOf(r.succeeded) + CountOf(r.failed) = CountOf(r.total)

\* Deploy's ctx is cancelled (by its owner, at any time).
DeployCancel ==
    /\ ~deployCtxDone
    /\ deployCtxDone' = TRUE
    /\ UNCHANGED <<domain, deployPc, upres, instanceIds, submitLog, pollLog,
                   resolveCalls, deployRet>>
    /\ UNCHANGED <<sleeps, deployedLog, candidateIds>>
    /\ UNCHANGED <<resolveLog, vendor>>
    /\ UNCHANGED otherThanDeploy

\* The certificate ids the uploader may return.
CloudCertIds == {"cert-A", "cert-B"}

\* upres, err := d.sslUploader.Upload(ctx, certPEM, privkeyPEM)
DeployUpload ==
    /\ deployPc = "upload"
    /\ \/ \E id \in CloudCertIds :
              /\ upres' = [CertId |-> id]
              /\ deployPc' = "resolve"
              /\ UNCHANGED deployRet
       \/ /\ deployRet' = Failure("failed to upload certificate file")
          /\ deployPc' = "returned"
          /\ UNCHANGED upres
    /\ UNCHANGED <<domain, deployCtxDone, instanceIds, submitLog, pollLog,
                   resolveCalls>>
    /\ UNCHANGED <<sleeps, deployedLog, candidateIds>>
    /\ UNCHANGED <<resolveLog, vendor>>
    /\ UNCHANGED otherThanDeploy

\* The candidate instances: getDomainsByCertificateId for a wildcard domain,
\* the configured domain otherwise.
DeployResolve ==
    /\ deployPc = "resolve"
    /\ IF HasWildcardPrefix(domain)
       THEN /\ resolveCalls' = resolveCalls + 1
            /\ \/ /\ resolveLog' = Append(resolveLog,
                         [cloudCertId |-> upres.CertId, domains |-> <<>>,
                          err |-> "error"])
                  /\ deployRet' = Failure("cdn.DescribeCertDomains")
                  /\ deployPc' = "returned"
                  /\ UNCHANGED <<instanceIds, candidateIds>>
               \/ \E domains \in DomainLists :
                    /\ resolveLog' = Append(resolveLog,
                           [cloudCertId |-> upres.CertId,
                            domains |-> domains, err |-> Nil])
                    /\ instanceIds' = domains
                    /\ candidateIds' = domains
                    /\ deployPc' = "filter"
                    /\ UNCHANGED deployRet
       ELSE /\ instanceIds' = <<domain>>
            /\ candidateIds' = instanceIds'
            /\ deployPc' = "filter"
            /\ UNCHANGED <<resolveCalls, deployRet, resolveLog>>
    /\ UNCHANGED <<domain, deployCtxDone, upres, submitLog, pollLog>>
    /\ UNCHANGED <<sleeps, deployedLog, vendor>>
    /\ UNCHANGED otherThanDeploy

\* The already-deployed filter: getDeployedDomainsByCertificateId when there
\* are candidates, and the instances it does not hold.
DeployFilterIgnoresError ==
    /\ deployPc = "filter"
    /\ \E e \in {Nil, "error"} :
         deployedLog' = Append(deployedLog,
             [cloudCertId |-> upres.CertId, domains |-> <<>>, err |-> e])
    /\ deployPc' = "targets"
    /\ UNCHANGED <<instanceIds, deployRet>>
    /\ UNCHANGED <<domain, deployCtxDone, upres, submitLog, pollLog,
                   resolveCalls>>
    /\ UNCHANGED <<sleeps, candidateIds>>
    /\ UNCHANGED <<resolveLog, vendor>>
    /\ UNCHANGED otherThanDeploy
DeployFilter ==
    /\ deployPc = "filter"
    /\ IF Len(instanceIds) > 0
       THEN \/ /\ deployedLog' = Append(deployedLog,
                       [cloudCertId |-> upres.CertId, domains |-> <<>>,
                        err |-> "error"])
               /\ deployRet' = Failure("cdn.DescribeDeployedResources")
               /\ deployPc' = "returned"
               /\ UNCHANGED instanceIds
            \/ \E deployedDomains \in DomainLists :
                 /\ deployedLog' = Append(deployedLog,
                        [cloudCertId |-> upres.CertId,
                         domains |-> deployedDomains, err |-> Nil])
                 /\ instanceIds' = SkipDeployed(instanceIds, deployedDomains)
                 /\ deployPc' = "targets"
                 /\ UNCHANGED deployRet
       ELSE /\ deployPc' = "targets"
            /\ UNCHANGED <<instanceIds, deployRet, deployedLog>>
    /\ UNCHANGED <<domain, deployCtxDone, upres, submitLog, pollLog,
                   resolveCalls>>
    /\ UNCHANGED <<sleeps, candidateIds>>
    /\ UNCHANGED <<resolveLog, vendor>>
    /\ UNCHANGED otherThanDeploy

\* `if len(instanceIds) == 0` and, with instances left, the call of
\* ssl.DeployCertificateInstance.
DeploySubmitAlways ==
    /\ deployPc = "targets"
    /\ \E ok \in BOOLEAN :
         /\ submitLog' = Append(submitLog,
                [CertificateId |-> upres.CertId,
                 InstanceIdList |-> instanceIds, ok |-> ok])
         /\ IF ok
            THEN deployPc' = "loop" /\ UNCHANGED deployRet
            ELSE /\ deployRet' = Failure("ssl.DeployCertificateInstance")
                 /\ deployPc' = "returned"
    /\ UNCHANGED <<domain, deployCtxDone, upres, instanceIds, pollLog,
                   resolveCalls>>
    /\ UNCHANGED <<sleeps, deployedLog, candidateIds>>
    /\ UNCHANGED <<resolveLog, vendor>>
    /\ UNCHANGED otherThanDeploy
DeploySubmit ==
    /\ deployPc = "targets"
    /\ IF Len(instanceIds) = 0
       THEN /\ deployRet' = DeployResult
            /\ deployPc' = "returned"
            /\ UNCHANGED submitLog
       ELSE \E ok \in BOOLEAN :
              /\ submitLog' = Append(submitLog,
                     [CertificateId |-> upres.CertId,
                      InstanceIdList |-> instanceIds, ok |-> ok])
              /\ IF ok
                 THEN deployPc' = "loop" /\ UNCHANGED deployRet
                 ELSE /\ deployRet' = Failure("ssl.DeployCertificateInstance")
                      /\ deployPc' = "returned"
    /\ UNCHANGED <<domain, deployCtxDone, upres, instanceIds, pollLog,
                   resolveCalls>>
    /\ UNCHANGED <<sleeps, deployedLog, candidateIds>>
    /\ UNCHANGED <<resolveLog, vendor>>
    /\ UNCHANGED otherThanDeploy

\* The top of the poll loop: select { case <-ctx.Done(): ...; default: } and,
\* with the context live, the call of ssl.DescribeHostDeployRecordDetail.
DeployLoop ==
    /\ deployPc = "loop"
    /\ IF deployCtxDone
       THEN deployRet' = Failure(CtxErr) /\ deployPc' = "returned"
       ELSE /\ Len(pollLog) < MaxPolls
            /\ deployPc' = "polling"
            /\ UNCHANGED deployRet
    /\ UNCHANGED <<domain, deployCtxDone, upres, instanceIds, submitLog,
                   pollLog, resolveCalls>>
    /\ UNCHANGED <<sleeps, deployedLog, candidateIds>>
    /\ UNCHANGED <<resolveLog, vendor>>
    /\ UNCHANGED otherThanDeploy

\* The poll is answered: the error check, the counts, the end of the job;
\* a job that has not ended starts time.Sleep.
DeployPolled ==
    /\ deployPc = "polling"
    /\ \E r \in PollResponses \cup {PollError} :
         /\ pollLog' = Append(pollLog, r)
         /\ IF r.err # Nil
            THEN /\ deployRet' = Failure("ssl.DescribeHostDeployRecordDetail")
                 /\ deployPc' = "returned"
                 /\ UNCHANGED sleeps
            ELSE IF TotalMissing(r)
            THEN /\ deployRet' = Failure("unexpected deployment job status")
                 /\ deployPc' = "returned"
                 /\ UNCHANGED sleeps
            ELSE IF JobEnded(r)
            THEN /\ deployRet' = DeployResult
                 /\ deployPc' = "returned"
                 /\ UNCHANGED sleeps
            ELSE /\ deployPc' = "sleep"
                 /\ sleeps' = sleeps + 1
                 /\ UNCHANGED deployRet
    /\ UNCHANGED <<domain, deployCtxDone, upres, instanceIds, submitLog,
                   resolveCalls>>
    /\ UNCHANGED <<deployedLog, candidateIds>>
    /\ UNCHANGED <<resolveLog, vendor>>
    /\ UNCHANGED otherThanDeploy

\* time.Sleep(time.Second * 5) returns.
DeploySlept ==
    /\ deployPc = "sleep"
    /\ deployPc' = "loop"
    /\ UNCHANGED <<domain, deployCtxDone, upres, instanceIds, submitLog,
                   pollLog, resolveCalls, deployRet>>
    /\ UNCHANGED <<sleeps, deployedLog, candidateIds>>
    /\ UNCHANGED <<resolveLog, vendor>>
    /\ UNCHANGED otherThanDeploy

\* A provider not yet asked to deploy.
DeployIdle ==
    /\ deployCtxDone = FALSE
    /\ deployPc = "upload"
    /\ upres = NilPtr
    /\ instanceIds = <<>>
    /\ submitLog = <<>>
    /\ pollLog = <<>>
    /\ resolveCalls = 0
    /\ deployRet = [res |-> NilPtr, err |-> Nil]
    /\ sleeps = 0
    /\ deployedLog = <<>>
    /\ candidateIds = <<>>
    /\ resolveLog = <<>>
    /\ vendor = NilPtr

DeployInit ==
    /\ domain \in ConfigDomains
    /\ DeployIdle

DeployNext ==
    \/ DeployCancel
    \/ DeployUpload
    \/ DeployResolve
    \/ DeployFilter
    \/ DeploySubmit
    \/ DeployLoop
    \/ DeployPolled
    \/ DeploySlept

(***************************************************************************)
(* ctyun-ao and ctyun-elb certificate upload                               *)
(***************************************************************************)

\* The number of records the vendor's store holds at the start, at most.
MaxStore == 3

\* The number of Upload calls of the model.
MaxUploads == 2

\* The latest clock reading (milliseconds) of the model.
MaxNow == 1

\* listCertPerPage: the page size of ao.ListCerts. The source asks for 1000
\* records a page; the model scales the page down so that a small store
\* spans several pages.
PerPage == 2

\* The Upload calls.
Uploads == 1..MaxUploads

\* A PEM text: the certificate it encodes (its DER bytes) and how the text
\* is laid out (line wrapping, whitespace). "garbage" encodes nothing.
PEM(der, wrap) == [der |-> der, wrap |-> wrap]

\* The certPEM arguments of the model: two certificates and a text that is
\* no certificate.
UploadedPEMs == {PEM("A", "local"), PEM("B", "local"),
                 PEM("garbage", "local")}

\* xcert.ParseCertificateFromPEM: the x509 fields Upload reads, NilPtr (and
\* an error) for a text that is no certificate. Certificate B was issued for
\* the same names and validity as A, with another key.
ParseCertificateFromPEM(pem) ==
    IF pem.der \in {"A", "B"}
    THEN [CommonName |-> "a.com", DNSNames |-> <<"a.com", "b.com">>,
          NotBefore |-> 100, NotAfter |-> 200]
    ELSE NilPtr

\* xcert.EqualCertificatesFromPEM: the decoded certificates are the same
\* bytes; the layout of the text does not count.
EqualCertificatesFromPEM(a, b) ==
    /\ ParseCertificateFromPEM(a) # NilPtr
    /\ ParseCertificateFromPEM(b) # NilPtr
    /\ a.der = b.der

\* The lower-case form of a name of the model.
ToLower(str) == IF str = "A.COM" THEN "a.com" ELSE str

\* strings.EqualFold
EqualFold(a, b) == ToLower(a) = ToLower(b)

\* fmt.Sprintf("%d", n) for n >= 0: the decimal digits of n.
RECURSIVE Digits(_)
Digits(n) == IF n < 10 THEN <<n>> ELSE Append(Digits(n \div 10), n % 10)

\* fmt.Sprintf("certimate-%d", ms)
CertName(ms) == <<"certimate-">> \o Digits(ms)

\* What the vendor keeps of a record, but for its id: the name, the listed
\* metadata and the certificate text.
Stored(name, cn, sans, issue, expires, certs) ==
    [Name |-> name, CN |-> cn, SANs |-> sans, IssueTime |-> issue,
     ExpiresTime |-> expires, Certs |-> certs]

\* The records a store of the model holds at the start: certificate A as the
\* vendor lists it (its text laid out the vendor's way), A listed with its
\* common name in capitals, A listed with its SANs in another order, a
\* record with A's metadata and another certificate (B), and records that
\* differ from A in common name, in issue time, in expiry time, in one SAN.
InitialRecords ==
    {Stored(<<"old">>, "a.com", <<"a.com", "b.com">>, 100, 200,
            PEM("A", "vendor")),
     Stored(<<"old">>, "A.COM", <<"a.com", "b.com">>, 100, 200,
            PEM("A", "vendor")),
     Stored(<<"old">>, "a.com", <<"b.com", "a.com">>, 100, 200,
            PEM("A", "vendor")),
     Stored(<<"old">>, "a.com", <<"a.com", "b.com">>, 100, 200,
            PEM("B", "vendor")),
     Stored(<<"old">>, "x.com", <<"a.com", "b.com">>, 100, 200,
            PEM("X", "vendor")),
     Stored(<<"old">>, "a.com", <<"a.com", "b.com">>, 101, 200,
            PEM("Y", "vendor")),
     Stored(<<"old">>, "a.com", <<"a.com", "b.com">>, 100, 201,
            PEM("Z", "vendor")),
     Stored(<<"old">>, "a.com", <<"a.com", "c.com">>, 100, 200,
            PEM("W", "vendor"))}

\* A stored record with the id the vendor gave it.
WithId(rec, id) ==
    [Id |-> id, Name |-> rec.Name, CN |-> rec.CN, SANs |-> rec.SANs,
     IssueTime |-> rec.IssueTime, ExpiresTime |-> rec.ExpiresTime,
     Certs |-> rec.Certs]

\* The stores of the model at the start: the vendor numbers its records in
\* the order it lists them.
InitialStores ==
    UNION {{[i \in 1..n |-> WithId(recs[i], i)] :
               recs \in [1..n -> InitialRecords]} : n \in 0..MaxStore}

\* The record the vendor makes of a created certificate: it reads the
\* metadata from the certificate and keeps the text in its own layout.
Created(id, name, pem) ==
    LET x == ParseCertificateFromPEM(pem)
    IN  WithId(Stored(name, x.CommonName, x.DNSNames, x.NotBefore,
                      x.NotAfter, PEM(pem.der, "vendor")), id)

\* The records of page `page` (of PerPage records) of the store.
PageOf(page) ==
    LET first == (page - 1) * PerPage + 1
        last == IF page * PerPage < Len(store) THEN page * PerPage
                ELSE Len(store)
    IN  IF first > Len(store) THEN <<>> ELSE SubSeq(store, first, last)

\* What ao.ListCerts may answer for a page: its records; past the end of the
\* store, no records or no ReturnObj at all.
ListCertsAnswers(page) ==
    IF PageOf(page) = <<>>
    THEN {[ReturnObj |-> FALSE, Results |-> <<>>],
          [ReturnObj |-> TRUE, Results |-> <<>>]}
    ELSE {[ReturnObj |-> TRUE, Results |-> PageOf(page)]}

\* The three comparisons of a listed record with the parsed certificate:
\* common name (EqualFold), SANs (slices.Equal), validity (Time.Equal of
\* time.Unix(seconds, 0)).
SameMetadataAnySANOrder(certX509, certRecord) ==
    /\ EqualFold(certX509.CommonName, certRecord.CN)
    /\ {certX509.DNSNames[n] : n \in 1..Len(certX509.DNSNames)}
         = {certRecord.SANs[n] : n \in 1..Len(certRecord.SANs)}
    /\ certX509.NotBefore = certRecord.IssueTime
    /\ certX509.NotAfter = certRecord.ExpiresTime
SameMetadataAnyExpiry(certX509, certRecord) ==
    /\ EqualFold(certX509.CommonName, certRecord.CN)
    /\ certX509.DNSNames = certRecord.SANs
    /\ certX509.NotBefore = certRecord.IssueTime
SameMetadata(certX509, certRecord) ==
    /\ EqualFold(certX509.CommonName, certRecord.CN)
    /\ certX509.DNSNames = certRecord.SANs
    /\ certX509.NotBefore = certRecord.IssueTime
    /\ certX509.NotAfter = certRecord.ExpiresTime

\* The index of the first record of `results`, from index i on, whose
\* metadata is that of certX509; 0 when there is none.
RECURSIVE LastCandidate(_, _, _)
LastCandidate(certX509, results, i) ==
    IF i > Len(results) THEN 0
    ELSE LET rest == LastCandidate(certX509, results, i + 1)
         IN  IF rest > 0 THEN rest
             ELSE IF SameMetadata(certX509, results[i]) THEN i ELSE 0
RECURSIVE NextCandidate(_, _, _)
NextCandidate(certX509, results, i) ==
    IF i > Len(results) THEN 0
    ELSE IF SameMetadata(certX509, results[i]) THEN i
    ELSE NextCandidate(certX509, results, i + 1)

\* The index of the first record of `records` whose certificate is pem;
\* 0 when there is none.
RECURSIVE FirstEqualText(_, _, _)
FirstEqualText(pem, records, i) ==
    IF i > Len(records) THEN 0
    ELSE IF pem = records[i].Certs THEN i
    ELSE FirstEqualText(pem, records, i + 1)
RECURSIVE FirstEqual(_, _, _)
FirstEqual(pem, records, i) ==
    IF i > Len(records) THEN 0
    ELSE IF EqualCertificatesFromPEM(pem, records[i].Certs) THEN i
    ELSE FirstEqual(pem, records, i + 1)

\* generateClientToken: uuid.New(), a token no earlier call had.
GenerateClientToken == Len(createLog) + 1

\* An *SSLManageUploadResult and a nil error.
UploadResult(id, name) ==
    [res |-> [CertId |-> id, CertName |-> name], err |-> Nil]

\* Upload call u is over.
Over(u) == uploadPc[u] \in {"returned", "panicked"}

\* The context of Upload call u is cancelled (by its owner, at any time
\* before the call is over).
UploadCancel(u) ==
    /\ ~uploadCtxDone[u]
    /\ ~Over(u)
    /\ uploadCtxDone' = [uploadCtxDone EXCEPT ![u] = TRUE]
    /\ UNCHANGED <<provider, store, certPEM, uploadPc, listCertPage,
                   listCertsResp, candidate, uploadRet, now, listLog,
                   queryLog, createLog>>
    /\ UNCHANGED otherThanUpload

\* Upload is called: ctyun-ao parses the certificate first.
UploadStart(u) ==
    /\ uploadPc[u] = "idle"
    /\ \E pem \in UploadedPEMs :
         /\ certPEM' = [certPEM EXCEPT ![u] = pem]
         /\ IF provider = "ao" /\ ParseCertificateFromPEM(pem) = NilPtr
            THEN /\ uploadRet' = [uploadRet EXCEPT
                                    ![u] = Failure("failed to parse")]
                 /\ uploadPc' = [uploadPc EXCEPT ![u] = "returned"]
            ELSE /\ uploadPc' = [uploadPc EXCEPT ![u] = "list"]
                 /\ UNCHANGED uploadRet
    /\ UNCHANGED <<provider, store, uploadCtxDone, listCertPage,
                   listCertsResp, candidate, now, listLog, queryLog,
                   createLog>>
    /\ UNCHANGED otherThanUpload

\* ctyun-ao, after a page arrived or a candidate was found different: go
\* through the page's records from index i to the next one with the
\* certificate's metadata and call ao.QueryCert for it; with none left,
\* leave the loop on a missing or short page and ask for the next page
\* otherwise.
AoExamineAlwaysCreates(u, resp, i) ==
    /\ uploadPc' = [uploadPc EXCEPT ![u] = "create"]
    /\ UNCHANGED <<candidate, listCertPage>>
AoExamineOnePage(u, resp, i) ==
    LET certX509 == ParseCertificateFromPEM(certPEM[u])
        j == NextCandidate(certX509, resp.Results, i)
    IN  IF j > 0
        THEN /\ candidate' = [candidate EXCEPT ![u] = j]
             /\ uploadPc' = [uploadPc EXCEPT ![u] = "query"]
             /\ UNCHANGED listCertPage
        ELSE /\ uploadPc' = [uploadPc EXCEPT ![u] = "create"]
             /\ UNCHANGED <<candidate, listCertPage>>
AoExamine(u, resp, i) ==
    LET certX509 == ParseCertificateFromPEM(certPEM[u])
        j == NextCandidate(certX509, resp.Results, i)
    IN  IF j > 0
        THEN /\ candidate' = [candidate EXCEPT ![u] = j]
             /\ uploadPc' = [uploadPc EXCEPT ![u] = "query"]
             /\ UNCHANGED listCertPage
        ELSE IF ~resp.ReturnObj \/ Len(resp.Results) < PerPage
        THEN /\ uploadPc' = [uploadPc EXCEPT ![u] = "create"]
             /\ UNCHANGED <<candidate, listCertPage>>
        ELSE /\ listCertPage' = [listCertPage EXCEPT ![u] = @ + 1]
             /\ uploadPc' = [uploadPc EXCEPT ![u] = "list"]
             /\ UNCHANGED candidate

\* ctyun-ao: the top of the page loop: the cancellation check, ao.ListCerts
\* and its error check, then the records of the page.
AoList(u) ==
    /\ provider = "ao"
    /\ uploadPc[u] = "list"
    /\ IF uploadCtxDone[u]
       THEN /\ uploadRet' = [uploadRet EXCEPT ![u] = Failure(CtxErr)]
            /\ uploadPc' = [uploadPc EXCEPT ![u] = "returned"]
            /\ UNCHANGED <<listCertPage, listCertsResp, candidate, listLog>>
       ELSE \/ /\ listLog' = Append(listLog,
                       [call |-> u, Page |-> listCertPage[u],
                        err |-> "error"])
               /\ uploadRet' = [uploadRet EXCEPT
                                  ![u] = Failure("ao.ListCerts")]
               /\ uploadPc' = [uploadPc EXCEPT ![u] = "returned"]
               /\ UNCHANGED <<listCertPage, listCertsResp, candidate>>
            \/ /\ listLog' = Append(listLog,
                       [call |-> u, Page |-> listCertPage[u], err |-> Nil])
               /\ \E resp \in ListCertsAnswers(listCertPage[u]) :
                    /\ listCertsResp' = [listCertsResp EXCEPT ![u] = resp]
                    /\ AoExamine(u, resp, 1)
                    /\ UNCHANGED uploadRet
    /\ UNCHANGED <<provider, store, certPEM, uploadCtxDone, now, queryLog,
                   createLog>>
    /\ UNCHANGED otherThanUpload

\* ctyun-ao: ao.QueryCert for the candidate: an error, a response without
\* ReturnObj or Result (the return statement then dereferences nil), or the
\* record's detail, whose certificate is compared with certPEM.
AoQueryIgnoresError(u) ==
    /\ provider = "ao"
    /\ uploadPc[u] = "query"
    /\ queryLog' = Append(queryLog,
           [call |-> u, Id |-> listCertsResp[u].Results[candidate[u]].Id,
            err |-> "error"])
    /\ AoExamine(u, listCertsResp[u], candidate[u] + 1)
    /\ UNCHANGED <<provider, store, certPEM, uploadCtxDone, listCertsResp,
                   now, listLog, createLog, uploadRet>>
    /\ UNCHANGED otherThanUpload
AoQuery(u) ==
    /\ provider = "ao"
    /\ uploadPc[u] = "query"
    /\ LET certRecord == listCertsResp[u].Results[candidate[u]]
           answered == Append(queryLog,
                           [call |-> u, Id |-> certRecord.Id, err |-> Nil])
       IN  \/ /\ queryLog' = Append(queryLog,
                      [call |-> u, Id |-> certRecord.Id, err |-> "error"])
              /\ uploadRet' = [uploadRet EXCEPT
                                 ![u] = Failure("ao.QueryCert")]
              /\ uploadPc' = [uploadPc EXCEPT ![u] = "returned"]
              /\ UNCHANGED <<listCertPage, candidate>>
           \/ /\ queryLog' = answered
              /\ uploadPc' = [uploadPc EXCEPT ![u] = "panicked"]
              /\ UNCHANGED <<uploadRet, listCertPage, candidate>>
           \/ /\ queryLog' = answered
              /\ \E k \in 1..Len(store) :
                   /\ store[k].Id = certRecord.Id
                   /\ IF ~EqualCertificatesFromPEM(certPEM[u], store[k].Certs)
                      THEN /\ AoExamine(u, listCertsResp[u], candidate[u] + 1)
                           /\ UNCHANGED uploadRet
                      ELSE /\ uploadRet' = [uploadRet EXCEPT ![u] =
                                  UploadResult(Digits(store[k].Id),
                                               store[k].Name)]
                           /\ uploadPc' = [uploadPc EXCEPT ![u] = "returned"]
                           /\ UNCHANGED <<listCertPage, candidate>>
    /\ UNCHANGED <<provider, store, certPEM, uploadCtxDone, listCertsResp,
                   now, listLog, createLog>>
    /\ UNCHANGED otherThanUpload

\* ctyun-elb: elb.ListCertificates, its error check and the loop over the
\* records, which returns the first whose certificate is certPEM.
ElbList(u) ==
    /\ provider = "elb"
    /\ uploadPc[u] = "list"
    /\ \/ /\ listLog' = Append(listLog,
                 [call |-> u, Page |-> 0, err |-> "error"])
          /\ uploadRet' = [uploadRet EXCEPT
                             ![u] = Failure("elb.ListCertificates")]
          /\ uploadPc' = [uploadPc EXCEPT ![u] = "returned"]
       \/ LET k == FirstEqual(certPEM[u], store, 1)
          IN  /\ listLog' = Append(listLog,
                     [call |-> u, Page |-> 0, err |-> Nil])
              /\ IF k > 0
                 THEN /\ uploadRet' = [uploadRet EXCEPT ![u] =
                             UploadResult(Digits(store[k].Id),
                                          store[k].Name)]
                      /\ uploadPc' = [uploadPc EXCEPT ![u] = "returned"]
                 ELSE /\ uploadPc' = [uploadPc EXCEPT ![u] = "create"]
                      /\ UNCHANGED uploadRet
    /\ UNCHANGED <<provider, store, certPEM, uploadCtxDone, listCertPage,
                   listCertsResp, candidate, now, queryLog, createLog>>
    /\ UNCHANGED otherThanUpload

\* An Upload that looks at the store once more before it creates, and
\* creates nothing when the certificate has been stored meanwhile.
UploadCreateIfAbsent(u) ==
    /\ uploadPc[u] = "create"
    /\ LET k == FirstEqual(certPEM[u], store, 1)
       IN  IF k > 0
           THEN /\ uploadRet' = [uploadRet EXCEPT ![u] =
                       UploadResult(Digits(store[k].Id), store[k].Name)]
                /\ UNCHANGED <<store, createLog>>
           ELSE /\ createLog' = Append(createLog,
                       [call |-> u, Name |-> CertName(now),
                        Certs |-> certPEM[u], ClientToken |-> 0,
                        held |-> Len(store),
                        err |-> IF ParseCertificateFromPEM(certPEM[u])
                                       = NilPtr
                                THEN "error" ELSE Nil])
                /\ IF ParseCertificateFromPEM(certPEM[u]) = NilPtr
                   THEN /\ uploadRet' = [uploadRet EXCEPT
                                           ![u] = Failure("create")]
                        /\ UNCHANGED store
                   ELSE /\ store' = Append(store,
                               Created(Len(store) + 1, CertName(now),
                                       certPEM[u]))
                        /\ uploadRet' = [uploadRet EXCEPT ![u] =
                               UploadResult(Digits(Len(store) + 1),
                                            CertName(now))]
    /\ uploadPc' = [uploadPc EXCEPT ![u] = "returned"]
    /\ UNCHANGED <<provider, certPEM, uploadCtxDone, listCertPage,
                   listCertsResp, candidate, listLog, queryLog, now>>
    /\ UNCHANGED otherThanUpload
\* Both providers: the new name from the clock, the create call (ctyun-elb
\* adds a client token) and its error check. The vendor refuses a text that
\* is no certificate.
UploadCreate(u) ==
    /\ uploadPc[u] = "create"
    /\ \E ms \in now..MaxNow, e \in {Nil, "error"} :
         /\ now' = ms
         /\ createLog' = Append(createLog,
                [call |-> u, Name |-> CertName(ms), Certs |-> certPEM[u],
                 ClientToken |-> IF provider = "elb" THEN GenerateClientToken
                                 ELSE 0,
                 held |-> Len(store), err |-> e])
         /\ \/ /\ e = "error"
               /\ uploadRet' = [uploadRet EXCEPT ![u] = Failure("create")]
               /\ UNCHANGED store
            \/ /\ e = Nil
               /\ ParseCertificateFromPEM(certPEM[u]) # NilPtr
               /\ store' = Append(store,
                      Created(Len(store) + 1, CertName(ms), certPEM[u]))
               /\ uploadRet' = [uploadRet EXCEPT ![u] =
                      UploadResult(Digits(Len(store) + 1), CertName(ms))]
    /\ uploadPc' = [uploadPc EXCEPT ![u] = "returned"]
    /\ UNCHANGED <<provider, certPEM, uploadCtxDone, listCertPage,
                   listCertsResp, candidate, listLog, queryLog>>
    /\ UNCHANGED otherThanUpload

\* No Upload call made yet.
UploadIdle ==
    /\ certPEM = [u \in Uploads |-> PEM("garbage", "local")]
    /\ uploadCtxDone = [u \in Uploads |-> FALSE]
    /\ uploadPc = [u \in Uploads |-> "idle"]
    /\ listCertPage = [u \in Uploads |-> 1]
    /\ listCertsResp = [u \in Uploads |->
                          [ReturnObj |-> FALSE, Results |-> <<>>]]
    /\ candidate = [u \in Uploads |-> 0]
    /\ uploadRet = [u \in Uploads |-> [res |-> NilPtr, err |-> Nil]]
    /\ now = 0
    /\ listLog = <<>>
    /\ queryLog = <<>>
    /\ createLog = <<>>

UploadInit ==
    /\ provider \in {"ao", "elb"}
    /\ store \in InitialStores
    /\ UploadIdle

\* The Upload calls of one caller come one after the other.
Turn(u) == \A v \in Uploads : v < u => Over(v)

UploadNext ==
    \/ \E u \in Uploads : Turn(u) /\ UploadCancel(u)
    \/ \E u \in Uploads : Turn(u) /\ UploadStart(u)
    \/ \E u \in Uploads : Turn(u) /\ AoList(u)
    \/ \E u \in Uploads : Turn(u) /\ AoQuery(u)
    \/ \E u \in Uploads : Turn(u) /\ ElbList(u)
    \/ \E u \in Uploads : Turn(u) /\ UploadCreate(u)

\* Upload calls of several goroutines: their steps interleave.
UploadConcurrent ==
    \/ \E u \in Uploads : UploadCancel(u)
    \/ \E u \in Uploads : UploadStart(u)
    \/ \E u \in Uploads : AoList(u)
    \/ \E u \in Uploads : AoQuery(u)
    \/ \E u \in Uploads : ElbList(u)
    \/ \E u \in Uploads : UploadCreate(u)

\* One Upload call and no other: the caller's first.
UploadOnce ==
    \/ UploadCancel(1)
    \/ UploadStart(1)
    \/ AoList(1)
    \/ AoQuery(1)
    \/ ElbList(1)
    \/ UploadCreate(1)

(***************************************************************************)
(* LeCDN SDK client                                                        *)
(***************************************************************************)

\* How many API calls the goroutines make in all.
MaxApiCalls == 3

\* The goroutines that share one Client.
Goroutines == {1, 2}

\* The tokens a login may answer.
Tokens == {"t1", "t2"}

\* NewClient: no token yet, the mutex unlocked, nothing in flight.
ClientInit ==
    /\ accessToken = ""
    /\ accessTokenMtx = 0
    /\ clientPc = [g \in Goroutines |-> "idle"]
    /\ authorization = [g \in Goroutines |-> <<>>]
    /\ apiCalls = 0

\* The header the pre-request hook sets: "Bearer " + token, or none when no
\* token is cached.
Bearer(token) == IF token # "" THEN <<"Bearer", token>> ELSE <<>>

\* A goroutine starts an API call; it first makes sure a token is cached.
ApiCall(g) ==
    /\ clientPc[g] = "idle"
    /\ apiCalls < MaxApiCalls
    /\ apiCalls' = apiCalls + 1
    /\ clientPc' = [clientPc EXCEPT ![g] = "lock"]
    /\ UNCHANGED <<accessToken, accessTokenMtx, authorization>>
    /\ UNCHANGED otherThanClient

\* The refresh takes accessTokenMtx.
RefreshLock(g) ==
    /\ clientPc[g] = "lock"
    /\ accessTokenMtx = 0
    /\ accessTokenMtx' = g
    /\ clientPc' = [clientPc EXCEPT ![g] = "check"]
    /\ UNCHANGED <<accessToken, authorization, apiCalls>>
    /\ UNCHANGED otherThanClient

\* Refresh-if-expired, under the mutex: a cached token that has not expired
\* is kept and the mutex released; otherwise the goroutine logs in.
RefreshCheck(g) ==
    /\ clientPc[g] = "check"
    /\ \E expired \in BOOLEAN :
          IF accessToken # "" /\ ~expired
          THEN /\ accessTokenMtx' = 0
               /\ clientPc' = [clientPc EXCEPT ![g] = "hook"]
          ELSE /\ clientPc' = [clientPc EXCEPT ![g] = "loginHook"]
               /\ UNCHANGED accessTokenMtx
    /\ UNCHANGED <<accessToken, authorization, apiCalls>>
    /\ UNCHANGED otherThanClient

\* The pre-request hook of a request being executed reads accessToken and
\* sets the Authorization header from it. It takes no lock.
PreRequestHook(g) ==
    /\ clientPc[g] \in {"hook", "loginHook"}
    /\ authorization' = [authorization EXCEPT ![g] = Bearer(accessToken)]
    /\ clientPc' = [clientPc EXCEPT
                      ![g] = IF clientPc[g] = "hook" THEN "sent"
                             ELSE "loginSent"]
    /\ UNCHANGED <<accessToken, accessTokenMtx, apiCalls>>
    /\ UNCHANGED otherThanClient

\* sendRequest returns, with the response or with an error; the API call
\* is over either way.
SendRequestReturns(g) ==
    /\ clientPc[g] = "sent"
    /\ clientPc' = [clientPc EXCEPT ![g] = "idle"]
    /\ authorization' = [authorization EXCEPT ![g] = <<>>]
    /\ UNCHANGED <<accessToken, accessTokenMtx, apiCalls>>
    /\ UNCHANGED otherThanClient

\* The login request returns: with a token, which the refresh goes on to
\* store, or with an error, which ends the API call and releases the mutex.
LoginReturns(g) ==
    /\ clientPc[g] = "loginSent"
    /\ authorization' = [authorization EXCEPT ![g] = <<>>]
    /\ \E ok \in BOOLEAN :
          IF ok
          THEN /\ clientPc' = [clientPc EXCEPT ![g] = "store"]
               /\ UNCHANGED accessTokenMtx
          ELSE /\ clientPc' = [clientPc EXCEPT ![g] = "idle"]
               /\ accessTokenMtx' = 0
    /\ UNCHANGED <<accessToken, apiCalls>>
    /\ UNCHANGED otherThanClient

\* The refresh writes the token it got and releases the mutex; the API
\* call goes on to its own request.
RefreshStore(g) ==
    /\ clientPc[g] = "store"
    /\ \E t \in Tokens : accessToken' = t
    /\ accessTokenMtx' = 0
    /\ clientPc' = [clientPc EXCEPT ![g] = "hook"]
    /\ UNCHANGED <<authorization, apiCalls>>
    /\ UNCHANGED otherThanClient

ClientNext ==
    \E g \in Goroutines :
        \/ ApiCall(g)
        \/ RefreshLock(g)
        \/ RefreshCheck(g)
        \/ PreRequestHook(g)
        \/ SendRequestReturns(g)
        \/ LoginReturns(g)
        \/ RefreshStore(g)

(***************************************************************************)
(* Several ObtainCertificate calls in one process                          *)
(***************************************************************************)

\* The ObtainCertificate calls of the model, and the clients they are made
\* on.
Runs == {1, 2}
ACMEClients == {1, 2}

\* The requests of these calls: as ObtainCertificateRequest, with the
\* provider's access configuration and without the fields no step here
\* reads.
RunRequests ==
    [ChallengeType: {"dns-01", "http-01", "tls-alpn-01"},
     Provider: {"registered", "unregistered"},
     ProviderAccessConfig: {"config-1", "config-2"},
     DisableFollowCNAME: BOOLEAN]

\* No solver set for either challenge type.
NoSolvers == [t \in {"dns-01", "http-01"} |-> NilPtr]

\* The provider the factory builds for a request.
ProviderOf(r) ==
    [provider |-> r.Provider, config |-> r.ProviderAccessConfig]

\* A call not made yet, on client c.
RunIdle(c) ==
    [client |-> c, request |-> NilPtr, ctxDone |-> FALSE, callPc |-> "init",
     bgPc |-> "none", done |-> <<>>, bgRet |-> [res |-> NilPtr, err |-> Nil],
     callRet |-> [res |-> NilPtr, err |-> Nil]]

\* No call made, no solver set, the environment variable unset.
RunsIdle ==
    /\ runs = [r \in Runs |-> RunIdle(1)]
    /\ solvers = [c \in ACMEClients |-> NoSolvers]
    /\ cnameSupportEnv = Nil
    /\ runObtainLog = <<>>

\* ObtainCertificate up to the select: make the channel, start the
\* goroutine.
RunCall(r) ==
    /\ runs[r].callPc = "init"
    /\ \E q \in RunRequests \cup {NilPtr} :
          runs' = [runs EXCEPT ![r].request = q, ![r].callPc = "select",
                               ![r].bgPc = "start"]
    /\ UNCHANGED <<solvers, cnameSupportEnv, runObtainLog>>
    /\ UNCHANGED otherThanRuns

\* The context of a call is cancelled (by its owner, at any time).
RunCancel(r) ==
    /\ ~runs[r].ctxDone
    /\ runs[r].callPc # "returned"
    /\ runs' = [runs EXCEPT ![r].ctxDone = TRUE]
    /\ UNCHANGED <<solvers, cnameSupportEnv, runObtainLog>>
    /\ UNCHANGED otherThanRuns

\* select: case <-ctx.Done(): return nil, ctx.Err()
RunSelectCancel(r) ==
    /\ runs[r].callPc = "select"
    /\ runs[r].ctxDone
    /\ runs' = [runs EXCEPT ![r].callRet = Failure(CtxErr),
                            ![r].callPc = "returned"]
    /\ UNCHANGED <<solvers, cnameSupportEnv, runObtainLog>>
    /\ UNCHANGED otherThanRuns

\* select: case r := <-done: return r.res, r.err
RunSelectDone(r) ==
    /\ runs[r].callPc = "select"
    /\ Len(runs[r].done) > 0
    /\ runs' = [runs EXCEPT ![r].callRet = Head(runs[r].done),
                            ![r].done = Tail(runs[r].done),
                            ![r].callPc = "returned"]
    /\ UNCHANGED <<solvers, cnameSupportEnv, runObtainLog>>
    /\ UNCHANGED otherThanRuns

\* sendObtainCertificateRequest: the nil check and os.Setenv.
RunStart(r) ==
    /\ runs[r].bgPc = "start"
    /\ IF runs[r].request = NilPtr
       THEN /\ runs' = [runs EXCEPT
                          ![r].bgRet = Failure("the request is nil"),
                          ![r].bgPc = "send"]
            /\ UNCHANGED cnameSupportEnv
       ELSE /\ cnameSupportEnv' = FormatBool(runs[r].request.DisableFollowCNAME)
            /\ runs' = [runs EXCEPT ![r].bgPc = "challenge"]
    /\ UNCHANGED <<solvers, runObtainLog>>
    /\ UNCHANGED otherThanRuns

\* sendObtainCertificateRequest: the switch on the challenge type; with a
\* provider built, Set...Provider puts it in the client's solvers under the
\* challenge type.
RunChallenge(r) ==
    /\ runs[r].bgPc = "challenge"
    /\ LET q == runs[r].request
       IN  IF q.ChallengeType \notin {"dns-01", "http-01"}
           THEN /\ runs' = [runs EXCEPT
                              ![r].bgRet = Failure("unsupported challenge type"),
                              ![r].bgPc = "send"]
                /\ UNCHANGED solvers
           ELSE IF RegistryGet(q.Provider) = Nil
           THEN /\ runs' = [runs EXCEPT
                              ![r].bgRet = Failure("provider not registered"),
                              ![r].bgPc = "send"]
                /\ UNCHANGED solvers
           ELSE \E built \in BOOLEAN :
                  IF ~built
                  THEN /\ runs' = [runs EXCEPT
                                     ![r].bgRet =
                                        Failure("failed to initialize provider"),
                                     ![r].bgPc = "send"]
                       /\ UNCHANGED solvers
                  ELSE /\ solvers' = [solvers EXCEPT
                                        ![runs[r].client][q.ChallengeType] =
                                           ProviderOf(q)]
                       /\ runs' = [runs EXCEPT ![r].bgPc = "obtain"]
    /\ UNCHANGED <<cnameSupportEnv, runObtainLog>>
    /\ UNCHANGED otherThanRuns

\* c.client.Certificate.Obtain(req): the CA validates with the solvers the
\* client holds and lego reads the environment; then the ARI check, and the
\* retry, which is another Obtain.
RunObtain(r) ==
    /\ runs[r].bgPc \in {"obtain", "retry"}
    /\ runObtainLog' = Append(runObtainLog,
           [run |-> r, solvers |-> solvers[runs[r].client],
            env |-> cnameSupportEnv])
    /\ \E o \in ObtainOutcomes :
          CASE o = "ok" ->
                 runs' = [runs EXCEPT
                            ![r].bgRet = [res |-> [Certificate |-> "issued"],
                                          err |-> Nil],
                            ![r].bgPc = "send"]
            [] o = "alreadyReplaced" /\ runs[r].bgPc = "obtain" ->
                 runs' = [runs EXCEPT ![r].bgPc = "retry"]
            [] OTHER ->
                 runs' = [runs EXCEPT ![r].bgRet = Failure(o),
                                      ![r].bgPc = "send"]
    /\ UNCHANGED <<solvers, cnameSupportEnv>>
    /\ UNCHANGED otherThanRuns

\* done <- result{res, err}: blocks while the buffer (capacity 1) is full.
RunSend(r) ==
    /\ runs[r].bgPc = "send"
    /\ Len(runs[r].done) < 1
    /\ runs' = [runs EXCEPT ![r].done = Append(runs[r].done, runs[r].bgRet),
                            ![r].bgPc = "finished"]
    /\ UNCHANGED <<solvers, cnameSupportEnv, runObtainLog>>
    /\ UNCHANGED otherThanRuns

\* The steps of a call once it is made.
RunSteps(r) ==
    \/ RunCancel(r)
    \/ RunSelectCancel(r)
    \/ RunSelectDone(r)
    \/ RunStart(r)
    \/ RunChallenge(r)
    \/ RunObtain(r)
    \/ RunSend(r)

\* One caller: a call is made when the one before it has returned.
Returned(r) == runs[r].callPc = "returned"

SequentialNext ==
    \/ \E r \in Runs : (\A p \in Runs : p < r => Returned(p)) /\ RunCall(r)
    \/ \E r \in Runs : RunSteps(r)

\* Several callers: the calls are made at any time.
ParallelNext ==
    \/ \E r \in Runs : RunCall(r)
    \/ \E r \in Runs : RunSteps(r)

(***************************************************************************)
(* CertificateRepository.DeleteWhere                                       *)
(***************************************************************************)

\* How many records the certificate collection holds at most.
MaxRecords == 3

RecordIds == 1..MaxRecords

\* Nothing called yet.
DelIdle ==
    [pc |-> "idle", expired |-> {}, records |-> <<>>, i |-> 1, ret |-> 0,
     errs |-> <<>>, result |-> [ret |-> 0, err |-> Nil],
     cleanupErr |-> Nil, findFailed |-> FALSE, attempted |-> <<>>,
     deleted |-> {}]

DeleteIdle ==
    /\ collection = {}
    /\ del = DelIdle

\* The records of a set, in ascending order of their ids.
RECURSIVE InOrder(_)
InOrder(set) ==
    IF set = {} THEN <<>>
    ELSE LET least == CHOOSE x \in set : \A y \in set : x <= y
         IN  <<least>> \o InOrder(set \ {least})

\* errors.Join of a list of errors: nil for no error, one error otherwise.
Join(errs) == IF Len(errs) = 0 THEN Nil ELSE "joined errors"

\* cleanupExpiredCertificates up to the DeleteWhere call: the persistence
\* settings are read; a failure returns its error, a retention of 0 days
\* returns nil, and otherwise DeleteWhere is called for the records whose
\* validity ended more than that many days ago.
CleanupStart ==
    /\ del.pc = "idle"
    /\ \/ del' = [del EXCEPT !.pc = "done", !.cleanupErr = "settings"]
       \/ del' = [del EXCEPT !.pc = "done"]
       \/ \E expired \in SUBSET collection :
             del' = [del EXCEPT !.pc = "find", !.expired = expired]
    /\ UNCHANGED collection
    /\ UNCHANGED otherThanDelete

\* DeleteWhere: FindAllRecords and its error check.
DeleteWhereFind ==
    /\ del.pc = "find"
    /\ \/ del' = [del EXCEPT !.findFailed = TRUE,
                             !.result = [ret |-> 0, err |-> Nil],
                             !.pc = "back"]
       \/ del' = [del EXCEPT !.records = InOrder(del.expired),
                             !.i = 1, !.pc = "loop"]
    /\ UNCHANGED collection
    /\ UNCHANGED otherThanDelete

\* DeleteWhere: one round of the loop over the records, and after the last
\* the return.
DeleteWhereLoop ==
    /\ del.pc = "loop"
    /\ IF del.i <= Len(del.records)
       THEN LET record == del.records[del.i]
            IN  \/ /\ del' = [del EXCEPT
                                !.errs = Append(@, record),
                                !.attempted = Append(@, record),
                                !.i = @ + 1]
                   /\ UNCHANGED collection
                \/ /\ collection' = collection \ {record}
                   /\ del' = [del EXCEPT
                                !.ret = @ + 1,
                                !.deleted = @ \cup {record},
                                !.attempted = Append(@, record),
                                !.i = @ + 1]
       ELSE /\ del' = [del EXCEPT
                         !.result =
                            IF Len(del.errs) > 0
                            THEN [ret |-> del.ret, err |-> Join(del.errs)]
                            ELSE [ret |-> del.ret, err |-> Nil],
                         !.pc = "back"]
            /\ UNCHANGED collection
    /\ UNCHANGED otherThanDelete

\* cleanupExpiredCertificates after DeleteWhere returned: its error is
\* logged and returned; otherwise the count is logged and nil returned.
CleanupEnd ==
    /\ del.pc = "back"
    /\ del' = [del EXCEPT !.cleanupErr = del.result.err, !.pc = "done"]
    /\ UNCHANGED collection
    /\ UNCHANGED otherThanDelete

CleanupNext ==
    \/ CleanupStart
    \/ DeleteWhereFind
    \/ DeleteWhereLoop
    \/ CleanupEnd

(***************************************************************************)
(* Specifications                                                          *)
(***************************************************************************)

\* A client about to be called; the other parts idle.
InitCertifier ==
    /\ CertInit
    /\ domain = CdnDomain /\ DeployIdle
    /\ provider = "ao" /\ store = <<>> /\ UploadIdle
    /\ ClientInit
    /\ DeleteIdle
    /\ RunsIdle

SpecCertifier == InitCertifier /\ [][CertNext]_vars

\* The goroutine started by the call keeps running: Go's scheduler runs a
\* goroutine that can take a step, and the CA answers.
BgSteps ==
    \/ BgObtainStart
    \/ BgChallenge
    \/ BgObtain
    \/ BgRetry
    \/ BgRevoke
    \/ BgSend

SpecCertifierFair == SpecCertifier /\ WF_vars(BgSteps)

\* A deployer about to be called; the other parts idle.
InitDeploy ==
    /\ DeployInit
    /\ CertInit
    /\ provider = "ao" /\ store = <<>> /\ UploadIdle
    /\ ClientInit
    /\ DeleteIdle
    /\ RunsIdle

SpecDeploy == InitDeploy /\ [][DeployNext]_vars

\* The steps of Deploy itself: all but the cancellation of its context.
DeploySteps ==
    \/ DeployUpload
    \/ DeployResolve
    \/ DeployFilter
    \/ DeploySubmit
    \/ DeployLoop
    \/ DeployPolled
    \/ DeploySlept

\* What a Deploy run that deployed the certificate to all its targets may
\* have left at the vendor: the certificate under its id, the domains the
\* certificate is eligible for (the configured domain itself when that is
\* no wildcard), and all of them among the domains it is deployed to.
VendorStates ==
    {[certId |-> id, eligible |-> el, deployed |-> dep] :
        id \in CloudCertIds,
        el \in (IF HasWildcardPrefix(domain) THEN DomainLists
                ELSE {<<domain>>}),
        dep \in DomainLists \cup {<<domain>>}}

\* The last entry of a log.
Last(log) == log[Len(log)]

\* Deploy is run again with the same certificate and configuration: the
\* uploader finds the certificate, and the vendor's queries answer from
\* what the earlier run left.
RedeployUpload ==
    /\ DeployUpload
    /\ upres' # NilPtr => upres'.CertId = vendor.certId

RedeployResolve ==
    /\ DeployResolve
    /\ (resolveLog' # resolveLog /\ Last(resolveLog').err = Nil)
         => Last(resolveLog').domains = vendor.eligible

RedeployFilter ==
    /\ DeployFilter
    /\ (deployedLog' # deployedLog /\ Last(deployedLog').err = Nil)
         => Last(deployedLog').domains = vendor.deployed

RedeployNext ==
    \/ DeployCancel
    \/ RedeployUpload
    \/ RedeployResolve
    \/ RedeployFilter
    \/ DeploySubmit

\* A deployer about to be called again after a run that deployed the
\* certificate everywhere; the other parts idle.
InitRedeploy ==
    /\ domain \in ConfigDomains
    /\ vendor \in {v \in VendorStates :
                     \A i \in 1..Len(v.eligible) :
                        \E j \in 1..Len(v.deployed) :
                           v.deployed[j] = v.eligible[i]}
    /\ deployCtxDone = FALSE
    /\ deployPc = "upload"
    /\ upres = NilPtr
    /\ instanceIds = <<>>
    /\ submitLog = <<>>
    /\ pollLog = <<>>
    /\ resolveCalls = 0
    /\ deployRet = [res |-> NilPtr, err |-> Nil]
    /\ sleeps = 0
    /\ deployedLog = <<>>
    /\ candidateIds = <<>>
    /\ resolveLog = <<>>
    /\ CertInit
    /\ provider = "ao" /\ store = <<>> /\ UploadIdle
    /\ ClientInit
    /\ DeleteIdle
    /\ RunsIdle

SpecRedeploy == InitRedeploy /\ [][RedeployNext]_vars

\* Deploy keeps running: its goroutine is scheduled, the vendor answers
\* every call and time.Sleep returns.
SpecDeployFair == SpecDeploy /\ WF_vars(DeploySteps)

\* A provider about to upload into a store of any content; the other parts
\* idle. One Upload call is made.
InitUpload ==
    /\ UploadInit
    /\ CertInit
    /\ domain = CdnDomain /\ DeployIdle
    /\ ClientInit
    /\ DeleteIdle
    /\ RunsIdle

SpecUpload == InitUpload /\ [][UploadOnce]_vars

\* The Upload call keeps running: its goroutine is scheduled and the vendor
\* answers every request.
UploadSteps ==
    \/ AoList(1)
    \/ AoQuery(1)
    \/ ElbList(1)
    \/ UploadCreate(1)

SpecUploadFair == SpecUpload /\ WF_vars(UploadSteps)

\* A provider about to upload into a store that holds nothing yet; the
\* other parts idle. The caller makes its Upload calls one after the other.
InitReupload ==
    /\ provider \in {"ao", "elb"} /\ store = <<>> /\ UploadIdle
    /\ CertInit
    /\ domain = CdnDomain /\ DeployIdle
    /\ ClientInit
    /\ DeleteIdle
    /\ RunsIdle

SpecReupload == InitReupload /\ [][UploadNext]_vars

\* Providers about to upload into a store that holds nothing yet, from
\* goroutines that run side by side; the other parts idle.
InitConcurrent ==
    /\ provider \in {"ao", "elb"} /\ store = <<>> /\ UploadIdle
    /\ CertInit
    /\ domain = CdnDomain /\ DeployIdle
    /\ ClientInit
    /\ DeleteIdle
    /\ RunsIdle

SpecConcurrent == InitConcurrent /\ [][UploadConcurrent]_vars

\* A new LeCDN client shared by the goroutines; the other parts idle.
InitClient ==
    /\ ClientInit
    /\ DeleteIdle
    /\ RunsIdle
    /\ CertInit
    /\ domain = CdnDomain /\ DeployIdle
    /\ provider = "ao" /\ store = <<>> /\ UploadIdle

SpecClient == InitClient /\ [][ClientNext]_vars

\* One ACMEClient whose caller makes its ObtainCertificate calls one after
\* the other; the other parts idle.
InitSequential ==
    /\ runs = [r \in Runs |-> RunIdle(1)]
    /\ solvers = [c \in ACMEClients |-> NoSolvers]
    /\ cnameSupportEnv = Nil
    /\ runObtainLog = <<>>
    /\ CertInit
    /\ domain = CdnDomain /\ DeployIdle
    /\ provider = "ao" /\ store = <<>> /\ UploadIdle
    /\ ClientInit
    /\ DeleteIdle

SpecSequential == InitSequential /\ [][SequentialNext]_vars

\* Concurrent runs, each with a client of its own, in one process.
InitParallel ==
    /\ runs = [r \in Runs |-> RunIdle(r)]
    /\ solvers = [c \in ACMEClients |-> NoSolvers]
    /\ cnameSupportEnv = Nil
    /\ runObtainLog = <<>>
    /\ CertInit
    /\ domain = CdnDomain /\ DeployIdle
    /\ provider = "ao" /\ store = <<>> /\ UploadIdle
    /\ ClientInit
    /\ DeleteIdle

SpecParallel == InitParallel /\ [][ParallelNext]_vars

\* A certificate collection of any content before the cleanup runs; the
\* other parts idle.
InitCleanup ==
    /\ collection \in SUBSET RecordIds
    /\ del = DelIdle
    /\ CertInit
    /\ domain = CdnDomain /\ DeployIdle
    /\ provider = "ao" /\ store = <<>> /\ UploadIdle
    /\ ClientInit
    /\ RunsIdle

SpecCleanup == InitCleanup /\ [][CleanupNext]_vars

(***************************************************************************)
(* Claims about the ACME issuance driver                                   *)
(***************************************************************************)

\* The goroutine has not delivered its result: nothing was sent on `done`.
NotDelivered == bgPc \in {"start", "challenge", "obtain", "retry", "send"}

\* C1: in ObtainCertificate and RevokeCertificate, when the context is
\* cancelled while the goroutine has not yet delivered its result, the
\* caller can return at once (the return does not wait for the goroutine),
\* and a return taken from the select in such a state is (nil, ctx.Err())
\* and leaves the goroutine where it is.
C1_CancelReturnsWithoutWaiting ==
    /\ [](callPc = "select" /\ ctxDone => ENABLED SelectCancel)
    /\ [][(callPc = "select" /\ ctxDone /\ NotDelivered
            /\ callPc' = "returned")
          => (callRet' = Failure(CtxErr) /\ bgPc' = bgPc)]_vars

\* C1 happens: the caller has returned the cancellation error while the
\* goroutine is still inside the CA's Obtain.
C1_Witness ==
    /\ callPc = "returned"
    /\ callRet = Failure(CtxErr)
    /\ bgPc = "obtain"

\* C2: when the first Obtain fails with the ARI "already replaced" conflict
\* there is exactly one more Obtain, with ReplacesCertID empty and the other
\* fields unchanged; its success is the call's success and its failure of
\* any kind (a second conflict too) is returned; no third Obtain is made.
C2_SingleRetryWithoutARI ==
    /\ Len(obtainLog) <= 2
    /\ (bgPc \in {"send", "finished"} /\ Len(obtainLog) >= 1
        /\ obtainLog[1].outcome = "alreadyReplaced")
       => /\ Len(obtainLog) = 2
          /\ obtainLog[2].req = [obtainLog[1].req EXCEPT !.ReplacesCertID = ""]
          /\ (obtainLog[2].outcome = "ok"
              => bgRet.err = Nil /\ bgRet.res # NilPtr)
          /\ (obtainLog[2].outcome # "ok"
              => bgRet = Failure(obtainLog[2].outcome))
    /\ (Len(obtainLog) = 2 => obtainLog[1].outcome = "alreadyReplaced")

\* C2 happens: a conflict on an Obtain that carried an ARI id, then a
\* second conflict on the retry, and the request has returned.
C2_Witness ==
    /\ bgPc = "finished"
    /\ Len(obtainLog) = 2
    /\ obtainLog[1].req.ReplacesCertID = "cert-0"
    /\ obtainLog[2].outcome = "alreadyReplaced"

\* C3: an Obtain sent to the CA carries a non-empty ReplacesCertID only if
\* the request's ARIReplacesAcctUrl is the client's account URL.
C3_NoCrossAccountARI ==
    \A i \in 1..Len(obtainLog) :
        obtainLog[i].req.ReplacesCertID # ""
            => request.ARIReplacesAcctUrl = ACMEAcctUrl

\* C3 happens: a request naming another account's certificate was sent to
\* the CA, and one naming this account's certificate was sent with its id.
C3_Witness ==
    /\ Len(obtainLog) >= 1
    /\ request.ARIReplacesCertId = "cert-0"
    /\ request.ARIReplacesAcctUrl # ACMEAcctUrl
    /\ obtainLog[1].req.ReplacesCertID = ""

(***************************************************************************)
(* Claims about the tencentcloud-cdn deployer                              *)
(***************************************************************************)

\* The last answered poll.
LastPoll == pollLog[Len(pollLog)]

\* Deploy has returned on a poll response that ended the job.
EndedOnPoll ==
    /\ deployPc = "returned"
    /\ Len(pollLog) > 0
    /\ LastPoll.err = Nil
    /\ ~TotalMissing(LastPoll)
    /\ JobEnded(LastPoll)

\* C6: Deploy returns success only if the terminal poll response has
\* succeeded = total, and returns a failure whenever that response has
\* failed > 0.
C6_SuccessOnlyIfAllSucceeded ==
    EndedOnPoll =>
        /\ deployRet.err = Nil
             => CountOf(LastPoll.succeeded) = CountOf(LastPoll.total)
        /\ CountOf(LastPoll.failed) > 0 => deployRet.err # Nil

\* C7: a first poll response with every count 0 (the job not yet populated)
\* does not end polling, so Deploy does not return success on it; and after
\* the responses {0,0,0,0}, {0,3,2,5} Deploy has returned a failure with
\* exactly those two polls made.
C7_NotPopulatedKeepsPolling ==
    /\ (deployPc = "returned" /\ Len(pollLog) = 1
        /\ pollLog[1] = NotPopulated) => deployRet.err # Nil
    /\ (Len(pollLog) >= 2 /\ pollLog[1] = NotPopulated
        /\ pollLog[2] = PartlyFailed)
       => (Len(pollLog) = 2 /\ deployPc = "returned" /\ deployRet.err # Nil)

\* C8: a poll response whose total count is missing is the last poll of the
\* run, and with it Deploy has returned the "unexpected deployment job
\* status" error, whatever the other counts.
C8_MissingTotalIsError ==
    \A i \in 1..Len(pollLog) :
        (pollLog[i].err = Nil /\ pollLog[i].total = NilCount)
            => /\ i = Len(pollLog)
               /\ deployPc = "returned"
               /\ deployRet = Failure("unexpected deployment job status")

\* C8 happens: the second poll's response has no total but two succeeded.
C8_Witness ==
    /\ Len(pollLog) = 2
    /\ pollLog[2] = Detail(Ptr(0), Ptr(2), Ptr(0), NilCount)

\* C9: with no instance left after resolution and filtering, Deploy's next
\* step is to return success, with no DeployCertificateInstance call and no
\* poll made before or by it.
C9_NoTargetsNoSubmit ==
    /\ [](deployPc = "targets" => submitLog = <<>> /\ pollLog = <<>>)
    /\ [][(deployPc = "targets" /\ instanceIds = <<>>
            /\ deployPc' # deployPc)
          => /\ deployPc' = "returned"
             /\ deployRet' = DeployResult
             /\ submitLog' = <<>>
             /\ pollLog' = <<>>]_vars

\* C9 happens: the configured domain was already deployed, and Deploy
\* returned success.
C9_Witness ==
    /\ domain = CdnDomain
    /\ deployPc = "returned"
    /\ deployRet = DeployResult
    /\ instanceIds = <<>>
    /\ submitLog = <<>>

\* C10: once the context is cancelled, the poll loop starts no sleep and
\* issues no poll.
C10_NoSleepNoPollAfterCancel ==
    [][(deployCtxDone /\ deployPc \in {"loop", "polling", "sleep"})
       => /\ ~(deployPc # "sleep" /\ deployPc' = "sleep")
          /\ ~(deployPc # "polling" /\ deployPc' = "polling")]_vars

\* A poll response that reports the job over: succeeded + failed = total.
Complete(r) ==
    /\ r.err = Nil
    /\ r.total # NilCount
    /\ CountOf(r.succeeded) + CountOf(r.failed) = r.total[1]

\* A poll response that reports the job not over yet.
Pending(r) ==
    /\ r.err = Nil
    /\ r.total # NilCount
    /\ CountOf(r.succeeded) + CountOf(r.failed) # r.total[1]

\* The poll loop was given up by the model: MaxPolls polls were answered
\* and none reported the job over.
NeverComplete ==
    /\ deployPc = "loop"
    /\ Len(pollLog) = MaxPolls
    /\ \A i \in 1..MaxPolls : Pending(pollLog[i])

\* C11: the poll loop ends normally exactly on the first response with
\* succeeded + failed = total: such a response is the last poll and Deploy
\* returns success with it, and a success after polls was given on such a
\* response. While the responses are not of that kind there is one sleep
\* after each and before the next poll. A running Deploy returns unless the
\* vendor never reports the job over.
C11_EndsOnFirstCompletePoll ==
    /\ [](\A i \in 1..Len(pollLog) :
            Complete(pollLog[i])
                => /\ i = Len(pollLog)
                   /\ deployPc = "returned"
                   /\ deployRet = DeployResult)
    /\ []((deployPc = "returned" /\ deployRet.err = Nil /\ pollLog # <<>>)
            => Complete(LastPoll))
    /\ [](sleeps = Cardinality({i \in 1..Len(pollLog) : Pending(pollLog[i])}))
    /\ [](deployPc = "polling" => sleeps = Len(pollLog))
    /\ <>(deployPc = "returned" \/ NeverComplete)

\* C11 happens: two responses that did not end the job, a sleep after each,
\* and a third on which Deploy returned.
C11_Witness ==
    /\ Len(pollLog) = 3
    /\ sleeps = 2
    /\ Complete(pollLog[3])
    /\ deployPc = "returned"

\* The members of a list.
Members(list) == {list[i] : i \in 1..Len(list)}

\* The list without the members of `gone`, in the order of the list.
RECURSIVE Without(_, _)
Without(list, gone) ==
    IF list = <<>> THEN <<>>
    ELSE (IF Head(list) \in gone THEN <<>> ELSE <<Head(list)>>)
             \o Without(Tail(list), gone)

\* C12: the InstanceIdList of a DeployCertificateInstance call holds no
\* domain that getDeployedDomainsByCertificateId returned for the uploaded
\* certificate id: it is the candidate list without those domains, in the
\* candidates' order.
C12_SubmitSkipsDeployed ==
    \A i \in 1..Len(submitLog) :
        /\ Len(deployedLog) = 1
        /\ deployedLog[1].err = Nil
        /\ deployedLog[1].cloudCertId = upres.CertId
        /\ Members(submitLog[i].InstanceIdList)
              \cap Members(deployedLog[1].domains) = {}
        /\ submitLog[i].InstanceIdList
              = Without(candidateIds, Members(deployedLog[1].domains))

\* C12 happens: of the two candidates of a wildcard domain the second was
\* already deployed, and the first alone was submitted.
C12_Witness ==
    /\ candidateIds = <<CdnDomain, ImgDomain>>
    /\ Len(deployedLog) = 1
    /\ deployedLog[1].domains = <<ImgDomain>>
    /\ Len(submitLog) = 1
    /\ submitLog[1].InstanceIdList = <<CdnDomain>>

\* Deploy has returned an error.
DeployFailed == deployPc = "returned" /\ deployRet.err # Nil

\* C13: the remote calls of a Deploy run come in the order Upload, target
\* resolution and filtering, at most one DeployCertificateInstance, polls.
\* Nothing is called before Upload succeeded; the submit carries the
\* certificate id Upload returned and follows an answered filter query;
\* polls follow a submit that succeeded; and with a failed call Deploy has
\* returned an error and made no call of a later stage.
C13_StagesInOrder ==
    /\ upres = NilPtr
         => /\ resolveCalls = 0 /\ deployedLog = <<>>
            /\ submitLog = <<>> /\ pollLog = <<>>
    /\ deployRet = Failure("failed to upload certificate file")
         => upres = NilPtr /\ deployPc = "returned"
    /\ deployRet = Failure("cdn.DescribeCertDomains")
         => /\ deployPc = "returned"
            /\ deployedLog = <<>> /\ submitLog = <<>> /\ pollLog = <<>>
    /\ deployedLog # <<>>
         => /\ Len(deployedLog) = 1
            /\ HasWildcardPrefix(domain) => resolveCalls = 1
            /\ deployedLog[1].err # Nil
                 => DeployFailed /\ submitLog = <<>> /\ pollLog = <<>>
    /\ submitLog # <<>>
         => /\ Len(submitLog) = 1
            /\ upres # NilPtr
            /\ submitLog[1].CertificateId = upres.CertId
            /\ Len(deployedLog) = 1 /\ deployedLog[1].err = Nil
            /\ ~submitLog[1].ok => DeployFailed /\ pollLog = <<>>
    /\ (pollLog # <<>> \/ deployPc \in {"loop", "polling", "sleep"})
         => Len(submitLog) = 1 /\ submitLog[1].ok
    /\ \A i \in 1..Len(pollLog) :
         pollLog[i].err # Nil => i = Len(pollLog) /\ DeployFailed

\* C13 happens: the submit of the second certificate id failed, and Deploy
\* returned the error without a poll.
C13_Witness ==
    /\ Len(submitLog) = 1
    /\ ~submitLog[1].ok
    /\ submitLog[1].CertificateId = "cert-B"
    /\ deployPc = "returned"
    /\ deployRet = Failure("ssl.DeployCertificateInstance")
    /\ pollLog = <<>>

(***************************************************************************)
(* Claims about the certificate upload                                     *)
(***************************************************************************)

\* The store held no record before the first Upload: every record it holds
\* was created by an Upload.
StartedEmpty == \A k \in 1..Len(store) : store[k].Name # <<"old">>

\* The create calls made for the certificate text pem.
CreatesOf(pem) == {i \in 1..Len(createLog) : createLog[i].Certs = pem}

\* Record rec matches the certificate pem: same metadata, same content.
Matches(pem, rec) ==
    /\ EqualCertificatesFromPEM(pem, rec.Certs)
    /\ SameMetadata(ParseCertificateFromPEM(pem), rec)

\* C4: two Upload calls in sequence for the same certificate, against a
\* store that was empty, that both return a result return the same vendor
\* certificate id; the first created the record and the second found it:
\* one create call was made for the certificate, by the first Upload.
C4_SecondUploadFindsFirst ==
    (/\ StartedEmpty
     /\ uploadPc[1] = "returned" /\ uploadRet[1].err = Nil
     /\ uploadPc[2] = "returned" /\ uploadRet[2].err = Nil
     /\ certPEM[1] = certPEM[2])
    => /\ uploadRet[1].res.CertId = uploadRet[2].res.CertId
       /\ Cardinality(CreatesOf(certPEM[1])) = 1
       /\ \A i \in CreatesOf(certPEM[1]) : createLog[i].call = 1

\* C4 happens: ctyun-ao uploaded a certificate twice into a store that was
\* empty, and both calls returned a result.
C4_Witness ==
    /\ provider = "ao"
    /\ StartedEmpty
    /\ uploadPc[1] = "returned" /\ uploadRet[1].err = Nil
    /\ uploadPc[2] = "returned" /\ uploadRet[2].err = Nil
    /\ certPEM[1] = certPEM[2]
    /\ Len(store) = 1

\* C5: no create call is made for a certificate while the store holds a
\* record that matches it, wherever in the store that record is: none of
\* the records the store held when a create call was made matches the
\* certificate of that call.
C5_NoCreateWhenStored ==
    \A i \in 1..Len(createLog) :
        \A k \in 1..createLog[i].held :
            ~Matches(createLog[i].Certs, store[k])

\* C5 happens: ctyun-ao found the certificate in the third record of the
\* store (on the second page), behind a record with the same metadata and
\* another certificate, and made no create call.
C5_Witness ==
    /\ provider = "ao"
    /\ Len(store) = 3
    /\ uploadPc[1] = "returned"
    /\ uploadRet[1] = UploadResult(Digits(3), <<"old">>)
    /\ Matches(certPEM[1], store[3])
    /\ SameMetadata(ParseCertificateFromPEM(certPEM[1]), store[1])
    /\ ~Matches(certPEM[1], store[1])
    /\ createLog = <<>>

\* C14: Upload applies no mutual exclusion between runs: a run that has
\* completed its enumeration without a match calls Create as its next step,
\* whatever another run has stored meanwhile; so two runs of the same
\* certificate that both completed their enumeration before either created
\* both create, and every successful create adds a record.
C14_BothRunsCreate ==
    /\ [][\A u \in Uploads :
            (uploadPc[u] = "create" /\ uploadPc'[u] # "create")
                => /\ Len(createLog') = Len(createLog) + 1
                   /\ createLog'[Len(createLog')].call = u
                   /\ createLog'[Len(createLog')].Certs = certPEM[u]]_vars
    /\ [](Len(store) = Cardinality({i \in 1..Len(createLog) :
                 \E u \in Uploads :
                    /\ createLog[i].call = u
                    /\ uploadRet[u].err = Nil}))

\* C14 happens: the store holds two records of the same certificate, made
\* by two runs, the second create made with the first's record in store.
C14_Witness ==
    /\ Len(store) = 2
    /\ store[1].Certs = store[2].Certs
    /\ Len(createLog) = 2
    /\ createLog[1].call # createLog[2].call
    /\ createLog[1].Certs = createLog[2].Certs
    /\ createLog[2].held = 1

\* C15: when ctyun-elb's Upload is invoked again for a certificate after a
\* create call for it failed, the create call of the later Upload carries
\* the ClientToken of the earlier one.
C15_RetryKeepsClientToken ==
    \A i, j \in 1..Len(createLog) :
        (/\ provider = "elb"
         /\ i < j
         /\ createLog[i].Certs = createLog[j].Certs
         /\ createLog[i].err # Nil)
        => createLog[j].ClientToken = createLog[i].ClientToken

\* What makes a record the certificate's for the provider: ctyun-ao asks
\* for the listed metadata and the content, ctyun-elb for the content.
Found(pem, rec) ==
    IF provider = "ao" THEN Matches(pem, rec)
    ELSE EqualCertificatesFromPEM(pem, rec.Certs)

\* The indices of the records the store held before the Upload that are
\* the certificate's.
FoundAt(pem) ==
    {k \in 1..Len(store) : store[k].Name = <<"old">> /\ Found(pem, store[k])}

\* The page of ao.ListCerts that lists record k of the store.
PageWith(k) == ((k - 1) \div PerPage) + 1

\* C16: the first record of the store that matches the certificate ends
\* the enumeration: no page behind that record's page is fetched, no record
\* behind it is queried, no create is called, and the result Upload gives
\* is that record's id and name.
C16_FirstMatchWins ==
    (uploadPc[1] # "idle" /\ FoundAt(certPEM[1]) # {})
    => LET k == CHOOSE m \in FoundAt(certPEM[1]) :
                    \A n \in FoundAt(certPEM[1]) : m <= n
       IN  /\ \A i \in 1..Len(listLog) : listLog[i].Page <= PageWith(k)
           /\ \A i \in 1..Len(queryLog) : queryLog[i].Id <= store[k].Id
           /\ createLog = <<>>
           /\ (uploadPc[1] = "returned" /\ uploadRet[1].err = Nil)
                => /\ uploadRet[1] = UploadResult(Digits(store[k].Id),
                                                  store[k].Name)
                   /\ provider = "ao"
                        => /\ queryLog[Len(queryLog)].Id = store[k].Id
                           /\ listLog[Len(listLog)].Page = PageWith(k)

\* C16 happens: ctyun-ao returned the first record of a store of three
\* whose third record (on the next page) matches as well, after the one
\* page and the one query.
C16_Witness ==
    /\ provider = "ao"
    /\ Len(store) = 3
    /\ FoundAt(certPEM[1]) = {1, 3}
    /\ uploadPc[1] = "returned"
    /\ uploadRet[1] = UploadResult(Digits(1), <<"old">>)
    /\ Len(listLog) = 1
    /\ Len(queryLog) = 1

\* C17: both providers check the context before each list fetch: an Upload
\* whose context is cancelled when it comes to fetch the list returns the
\* context's error, and calls neither list, query nor create.
C17_CancelCheckedBeforeList ==
    [][\A u \in Uploads :
         (uploadPc[u] = "list" /\ uploadCtxDone[u] /\ uploadPc'[u] # "list")
            => /\ uploadPc'[u] = "returned"
               /\ uploadRet'[u] = Failure(CtxErr)
               /\ listLog' = listLog
               /\ queryLog' = queryLog
               /\ createLog' = createLog]_vars

\* The entries of a log that Upload call u made.
CallsOf(log, u) == {i \in 1..Len(log) : log[i].call = u}

\* The failed entry i of a log is the last one call u made in it.
LastOf(log, u, i) == \A j \in CallsOf(log, u) : j <= i

\* C18: a failed list fetch, query or create ends the Upload with the
\* error of that call: the failed call is the last of its kind the Upload
\* made, no create was called in an Upload whose list fetch or query
\* failed, no request is made twice, and an Upload that has returned makes
\* no call.
C18_VendorFailureAborts ==
    /\ [](\A u \in Uploads :
            /\ \A i \in CallsOf(listLog, u) :
                 listLog[i].err # Nil
                    => /\ uploadPc[u] = "returned"
                       /\ uploadRet[u] \in {Failure("ao.ListCerts"),
                                            Failure("elb.ListCertificates")}
                       /\ LastOf(listLog, u, i)
                       /\ CallsOf(createLog, u) = {}
            /\ \A i \in CallsOf(queryLog, u) :
                 queryLog[i].err # Nil
                    => /\ uploadPc[u] = "returned"
                       /\ uploadRet[u] = Failure("ao.QueryCert")
                       /\ LastOf(queryLog, u, i)
                       /\ CallsOf(createLog, u) = {}
            /\ \A i \in CallsOf(createLog, u) :
                 createLog[i].err # Nil
                    => /\ uploadPc[u] = "returned"
                       /\ uploadRet[u] = Failure("create")
            /\ Cardinality(CallsOf(createLog, u)) <= 1
            /\ \A i, j \in CallsOf(listLog, u) :
                 listLog[i].Page = listLog[j].Page => i = j
            /\ \A i, j \in CallsOf(queryLog, u) :
                 queryLog[i].Id = queryLog[j].Id => i = j)
    /\ [][\A u \in Uploads :
            Over(u) => /\ CallsOf(listLog', u) = CallsOf(listLog, u)
                       /\ CallsOf(queryLog', u) = CallsOf(queryLog, u)
                       /\ CallsOf(createLog', u) = CallsOf(createLog, u)]_vars

\* C18 happens: ctyun-ao's second query of an Upload failed, and the Upload
\* returned that error without a create call.
C18_Witness ==
    /\ provider = "ao"
    /\ Len(queryLog) = 2
    /\ queryLog[1].err = Nil
    /\ queryLog[2].err # Nil
    /\ uploadPc[1] = "returned"
    /\ uploadRet[1] = Failure("ao.QueryCert")
    /\ createLog = <<>>

\* The record of the store with the vendor id `id`.
RecordWithId(id) == CHOOSE rec \in Members(store) : rec.Id = id

\* A name in capitals, for the names of the model.
ToUpper(str) == IF str = "a.com" THEN "A.COM" ELSE str

\* C19: ctyun-ao calls QueryCert for a listed record only if the record's
\* common name is the certificate's but for the case of its letters, its
\* SANs are the certificate's DNS names in the same order, and its issue
\* and expiry times are the certificate's notBefore and notAfter.
C19_QueryOnlyOnMetadataMatch ==
    \A i \in 1..Len(queryLog) :
        LET rec == RecordWithId(queryLog[i].Id)
            x == ParseCertificateFromPEM(certPEM[queryLog[i].call])
        IN  /\ ToUpper(rec.CN) = ToUpper(x.CommonName)
            /\ Len(rec.SANs) = Len(x.DNSNames)
            /\ \A n \in 1..Len(rec.SANs) : rec.SANs[n] = x.DNSNames[n]
            /\ rec.IssueTime = x.NotBefore
            /\ rec.ExpiresTime = x.NotAfter

\* C19 happens: of three records the first differs from the certificate in
\* its expiry and the second in a SAN, and only the third, listed with the
\* common name in capitals, was queried.
C19_Witness ==
    /\ provider = "ao"
    /\ Len(store) = 3
    /\ store[1].ExpiresTime = 201
    /\ store[2].SANs = <<"a.com", "c.com">>
    /\ store[3].CN = "A.COM"
    /\ Len(queryLog) = 1
    /\ queryLog[1].Id = 3

\* Upload call u has returned record k of the store as the one found.
ReturnedAsFound(u, k) ==
    /\ uploadPc[u] = "returned"
    /\ uploadRet[u].err = Nil
    /\ uploadRet[u].res.CertId = Digits(store[k].Id)

\* C20: ctyun-ao compares the SANs in order: a listed record whose SANs
\* are not, entry by entry, the certificate's DNS names (another entry, or
\* the same entries in another order) does not have the certificate's
\* metadata; it is not queried and it is not returned as the one found,
\* even when its content is the certificate.
C20_SANOrderCounts ==
    \A u \in Uploads, k \in 1..Len(store) :
        LET x == ParseCertificateFromPEM(certPEM[u])
        IN  (/\ provider = "ao"
             /\ x # NilPtr
             /\ store[k].SANs # x.DNSNames)
            => /\ ~SameMetadata(x, store[k])
               /\ \A i \in CallsOf(queryLog, u) :
                    queryLog[i].Id # store[k].Id
               /\ ~ReturnedAsFound(u, k)

\* C20 happens: the store's one record is the certificate, listed with its
\* SANs in another order; ctyun-ao did not query it and created the
\* certificate again.
C20_Witness ==
    /\ provider = "ao"
    /\ Len(store) = 2
    /\ store[1].SANs = <<"b.com", "a.com">>
    /\ EqualCertificatesFromPEM(certPEM[1], store[1].Certs)
    /\ queryLog = <<>>
    /\ uploadPc[1] = "returned"
    /\ uploadRet[1].err = Nil
    /\ store[2].Certs = store[1].Certs

\* C21: two create calls made for different certificates carry different
\* certificate names.
C21_DistinctNames ==
    \A i, j \in 1..Len(createLog) :
        (/\ i # j
         /\ ParseCertificateFromPEM(createLog[i].Certs) # NilPtr
         /\ ParseCertificateFromPEM(createLog[j].Certs) # NilPtr
         /\ createLog[i].Certs.der # createLog[j].Certs.der)
        => createLog[i].Name # createLog[j].Name

(***************************************************************************)
(* Further claims about the ACME issuance driver                           *)
(***************************************************************************)

\* The place of the first event e in the order of events; 0 when it has not
\* happened.
FirstAt(e) ==
    IF \E i \in 1..Len(events) : events[i] = e
    THEN CHOOSE i \in 1..Len(events) :
             events[i] = e /\ \A j \in 1..(i - 1) : events[j] # e
    ELSE 0

\* The event a happened, and before any event b.
Before(a, b) == FirstAt(a) > 0 /\ (FirstAt(b) = 0 \/ FirstAt(a) < FirstAt(b))

\* C22: when the goroutine delivered its result before the context was
\* cancelled, the call returns that result and not the context's error.
C22_FirstEventDecides ==
    (callPc = "returned" /\ Before("delivered", "cancel"))
        => callRet = bgRet

\* C23: cancellation does not stop the request: with the caller returned on
\* the context's error and the goroutine about to call the CA's Obtain, the
\* Obtain can go ahead and issue the certificate; and a return with the
\* context's error carries no response.
C23_CancelLeavesRequestRunning ==
    /\ [](callRet.err = CtxErr => callRet.res = NilPtr)
    /\ []((callPc = "returned" /\ callRet.err = CtxErr /\ bgPc = "obtain")
            => ENABLED (BgObtain /\ bgRet'.err = Nil))

\* C23 happens: the caller returned the context's error, and after that the
\* CA issued the certificate and the goroutine delivered it to nobody.
C23_Witness ==
    /\ callPc = "returned"
    /\ callRet = Failure(CtxErr)
    /\ Before("returned", "obtain")
    /\ Len(obtainLog) = 1
    /\ obtainLog[1].outcome = "ok"
    /\ bgPc = "finished"

\* C24: a first Obtain that fails with another error than the ARI conflict
\* is the only Obtain of the request, and its error is what the request
\* returns; a revocation calls the CA's Revoke once, and returns its
\* outcome; and what the caller gets, unless it is the context's error, is
\* what the request returned.
C24_NoSilentRetry ==
    /\ (Len(obtainLog) >= 1 /\ obtainLog[1].outcome = "error")
         => /\ Len(obtainLog) = 1
            /\ bgPc \in {"send", "finished"}
            /\ bgRet = Failure("error")
    /\ Len(revokeLog) <= 1
    /\ (op = "revoke" /\ request # NilPtr /\ bgPc \in {"send", "finished"})
         => /\ Len(revokeLog) = 1
            /\ revokeLog[1].outcome = "ok" => bgRet.err = Nil
            /\ revokeLog[1].outcome # "ok"
                 => bgRet = Failure(revokeLog[1].outcome)
    /\ (callPc = "returned" /\ callRet.err # CtxErr) => callRet = bgRet

\* C24 happens: the one Obtain failed, and the caller got its error.
C24_Witness ==
    /\ Len(obtainLog) = 1
    /\ obtainLog[1].outcome = "error"
    /\ callPc = "returned"
    /\ callRet = Failure("error")

\* The request is one sendObtainCertificateRequest rejects before it builds
\* a challenge provider.
Rejected ==
    IF request = NilPtr THEN TRUE
    ELSE \/ request.ChallengeType \notin {"dns-01", "http-01"}
         \/ RegistryGet(request.Provider) = Nil

\* The error sendObtainCertificateRequest returns for a rejected request.
RejectedWith ==
    IF request = NilPtr THEN Failure("the request is nil")
    ELSE IF request.ChallengeType \notin {"dns-01", "http-01"}
    THEN Failure("unsupported challenge type")
    ELSE Failure("provider not registered")

\* C28: a nil request, a challenge type other than dns-01 and http-01, and
\* an unknown provider make sendObtainCertificateRequest return their error
\* without a constructor call and without an Obtain; a failing constructor
\* was called once and makes it return its error without an Obtain.
C28_ConstructionFailsAtOnce ==
    /\ factoryCalls <= 1
    /\ (op = "obtain" /\ Rejected)
         => /\ factoryCalls = 0
            /\ obtainLog = <<>>
            /\ bgPc \in {"start", "challenge", "send", "finished"}
            /\ bgPc \in {"send", "finished"} => bgRet = RejectedWith
    /\ (op = "obtain" /\ ~Rejected /\ bgPc \in {"send", "finished"}
            /\ obtainLog = <<>>)
         => /\ factoryCalls = 1
            /\ bgRet = Failure("failed to initialize provider")
    /\ bgRet = Failure("failed to initialize provider")
         => /\ factoryCalls = 1
            /\ obtainLog = <<>>
            /\ bgPc \in {"send", "finished"}

\* C28 happens: the constructor of a registered provider failed, and the
\* caller got that error.
C28_Witness ==
    /\ op = "obtain"
    /\ ~Rejected
    /\ factoryCalls = 1
    /\ obtainLog = <<>>
    /\ callPc = "returned"
    /\ callRet = Failure("failed to initialize provider")

\* How often the goroutine sent on the result channel.
Sends == Cardinality({i \in 1..Len(events) : events[i] = "delivered"})

\* C29: the goroutine's send on the result channel never blocks, whether or
\* not the caller has returned; it sends once per call, and once the request
\* has returned the goroutine terminates.
C29_SendNeverBlocks ==
    /\ [](bgPc = "send" => ENABLED BgSend)
    /\ [](Sends <= 1 /\ (bgPc = "finished" => Sends = 1))
    /\ (bgPc = "send") ~> (bgPc = "finished")

\* C29 happens: the caller returned on cancellation before the request did,
\* and the goroutine delivered its result and finished.
C29_Witness ==
    /\ callPc = "returned"
    /\ callRet = Failure(CtxErr)
    /\ Before("returned", "delivered")
    /\ bgPc = "finished"
    /\ done = <<bgRet>>

\* The request asks to replace a certificate of the client's own account.
AsksARI ==
    /\ op = "obtain"
    /\ request # NilPtr
    /\ request.ARIReplacesAcctUrl = ACMEAcctUrl
    /\ request.ARIReplacesCertId # ""

\* C30: the response's ARIReplaced is true exactly when the Obtain that
\* succeeded carried a ReplacesCertID: when the request asked to replace a
\* certificate of the client's account and the first Obtain succeeded.
C30_ARIReplacedFlag ==
    (op = "obtain" /\ bgRet.res # NilPtr)
        => /\ obtainLog[Len(obtainLog)].outcome = "ok"
           /\ bgRet.res.ARIReplaced
                <=> obtainLog[Len(obtainLog)].req.ReplacesCertID # ""
           /\ bgRet.res.ARIReplaced <=> (AsksARI /\ Len(obtainLog) = 1)
           /\ Len(obtainLog) = 2 => ~bgRet.res.ARIReplaced
           /\ request.ARIReplacesAcctUrl # ACMEAcctUrl
                => ~bgRet.res.ARIReplaced
           /\ request.ARIReplacesCertId = "" => ~bgRet.res.ARIReplaced

\* C30 happens: the retry after an ARI conflict succeeded, and the caller
\* got a response that does not claim a replacement.
C30_Witness ==
    /\ op = "obtain"
    /\ AsksARI
    /\ Len(obtainLog) = 2
    /\ obtainLog[1].outcome = "alreadyReplaced"
    /\ callPc = "returned"
    /\ callRet.res # NilPtr
    /\ ~callRet.res.ARIReplaced

(***************************************************************************)
(* Further claims about the tencentcloud-cdn deployer                      *)
(***************************************************************************)

\* Deploy has its candidate instances: it is past the resolution.
Resolved ==
    /\ deployPc \notin {"upload", "resolve"}
    /\ deployRet \notin {Failure("failed to upload certificate file"),
                          Failure("cdn.DescribeCertDomains")}

\* C25: for a configured domain that starts with "*." the candidates are
\* what the one getDomainsByCertificateId call for the uploaded certificate
\* id answered, and that call was answered before the already-deployed
\* query was made; for any other domain the candidates are that domain
\* alone and getDomainsByCertificateId is not called.
C25_CandidateTargets ==
    IF Len(domain) >= 2 /\ domain[1] = "*"
    THEN /\ Len(resolveLog) <= 1
         /\ \A i \in 1..Len(resolveLog) :
              resolveLog[i].cloudCertId = upres.CertId
         /\ Resolved => /\ Len(resolveLog) = 1
                         /\ resolveLog[1].err = Nil
                         /\ candidateIds = resolveLog[1].domains
         /\ deployedLog # <<>> => Resolved
    ELSE /\ resolveLog = <<>>
         /\ resolveCalls = 0
         /\ Resolved => candidateIds = <<domain>>

\* C25 happens: the domain "*" (no "*." prefix) was taken as the one
\* candidate and submitted without a resolution.
C25_Witness ==
    /\ domain = <<"*">>
    /\ candidateIds = <<domain>>
    /\ resolveLog = <<>>
    /\ Len(submitLog) = 1

\* A vendor call of the run failed.
SomeCallFailed ==
    \/ deployRet = Failure("failed to upload certificate file")
    \/ \E i \in 1..Len(resolveLog) : resolveLog[i].err # Nil
    \/ \E i \in 1..Len(deployedLog) : deployedLog[i].err # Nil

\* C26: a Deploy run after one that deployed the certificate to all its
\* targets makes no DeployCertificateInstance call and no poll, and, when
\* none of its calls fails, returns success.
C26_RerunSubmitsNothing ==
    /\ submitLog = <<>>
    /\ pollLog = <<>>
    /\ deployPc \in {"upload", "resolve", "filter", "targets", "returned"}
    /\ deployPc = "returned"
         => IF SomeCallFailed THEN deployRet.err # Nil
            ELSE deployRet = DeployResult

\* C26 happens: both domains of a wildcard certificate were deployed by the
\* earlier run; the vendor lists them in another order, and the second run
\* returned success with nothing submitted.
C26_Witness ==
    /\ HasWildcardPrefix(domain)
    /\ vendor.eligible = <<CdnDomain, ImgDomain>>
    /\ vendor.deployed = <<ImgDomain, CdnDomain>>
    /\ candidateIds = vendor.eligible
    /\ Len(deployedLog) = 1
    /\ deployPc = "returned"
    /\ deployRet = DeployResult
    /\ submitLog = <<>>

(***************************************************************************)
(* Claims about the LeCDN SDK client                                       *)
(***************************************************************************)

\* The goroutine is about to read accessToken.
Reads(g) == clientPc[g] \in {"check", "hook", "loginHook"}

\* The goroutine is about to write accessToken.
Writes(g) == clientPc[g] = "store"

\* C27: every read and every write of accessToken, the pre-request hook's
\* read included, happens while the goroutine holds accessTokenMtx, so no
\* hook reads the token while a refresh is writing it.
C27_TokenAccessUnderMutex ==
    /\ \A g \in Goroutines : (Reads(g) \/ Writes(g)) => accessTokenMtx = g
    /\ \A g, h \in Goroutines : ~(g # h /\ Reads(g) /\ Writes(h))

(***************************************************************************)
(* Claims about Deploy and cancellation                                    *)
(***************************************************************************)

\* C35: Deploy calls DeployCertificateInstance only while the context is
\* not cancelled: no submit is made once the caller has cancelled.
C35_NoSubmitAfterCancel ==
    [][Len(submitLog') > Len(submitLog) => ~deployCtxDone]_vars

(***************************************************************************)
(* Further claims about the certificate upload                             *)
(***************************************************************************)

\* C33: ctyun-ao reports a listed record as found only when the queried
\* content is the certificate's, and a QueryCert answer without a record
\* does not crash the Upload.
C33_NoRecordNoCrash ==
    provider = "ao"
        => \A u \in Uploads :
              /\ uploadPc[u] # "panicked"
              /\ \A k \in 1..Len(store) :
                    (store[k].Name = <<"old">> /\ ReturnedAsFound(u, k))
                        => Matches(certPEM[u], store[k])

\* The records the store held when the Upload's create was called (all of
\* it while no create was called).
Held == IF createLog = <<>> THEN Len(store) ELSE createLog[1].held

\* Record k was examined: its metadata is not the certificate's, or
\* ao.QueryCert was called for it and answered.
Examined(u, k) ==
    \/ ~SameMetadata(ParseCertificateFromPEM(certPEM[u]), store[k])
    \/ \E i \in CallsOf(queryLog, u) :
          queryLog[i].Id = store[k].Id /\ queryLog[i].err = Nil

\* C34, as far as a state shows it: the i-th ListCerts call asks for page i,
\* a page is asked for only when the one before it was full, and a create
\* is called only after the page that was absent or short was fetched and
\* every record the store held was examined.
Enumerated ==
    provider = "ao"
        => /\ \A i \in 1..Len(listLog) :
                 /\ listLog[i].Page = i
                 /\ i > 1 => (i - 1) * PerPage <= Held
           /\ createLog # <<>>
                 => /\ listLog # <<>>
                    /\ listLog[Len(listLog)].err = Nil
                    /\ (Len(listLog) - 1) * PerPage <= Held
                    /\ Held < Len(listLog) * PerPage
                    /\ \A k \in 1..Held : Examined(1, k)

\* C34: ctyun-ao fetches the pages 1, 2, 3, ... in turn, each once, up to
\* the first that is absent or short; the enumeration of a finite store
\* ends, and every listed record was examined before a create is called.
C34_PagesInTurn ==
    /\ []Enumerated
    /\ (uploadPc[1] \notin {"idle", "returned", "panicked"}) ~> Over(1)

\* C34 happens: a full first page and a second, short one were fetched, and
\* the create was called over a store of more than a page.
C34_Witness ==
    /\ provider = "ao"
    /\ Len(listLog) = 2
    /\ Len(createLog) = 1
    /\ createLog[1].held > PerPage
    /\ \E k \in 1..PerPage :
          SameMetadata(ParseCertificateFromPEM(certPEM[1]), store[k])
    /\ uploadPc[1] = "returned"

(***************************************************************************)
(* Claims about several ObtainCertificate calls                            *)
(***************************************************************************)

\* The goroutine of call r is executing sendObtainCertificateRequest.
Executing(r) == runs[r].bgPc \in {"start", "challenge", "obtain", "retry"}

\* C31: with the calls on one client made one after the other, at most one
\* sendObtainCertificateRequest executes on the client at a time, and the
\* solver an Obtain runs with, for its call's challenge type, is the one
\* that call configured.
C31_OneRequestAtATime ==
    /\ \A r, p \in Runs : (Executing(r) /\ Executing(p)) => r = p
    /\ \A i \in 1..Len(runObtainLog) :
          LET q == runs[runObtainLog[i].run].request
          IN  runObtainLog[i].solvers[q.ChallengeType] = ProviderOf(q)

\* C32: every Obtain of concurrent runs on distinct clients runs with
\* LEGO_DISABLE_CNAME_SUPPORT set from its own run's DisableFollowCNAME.
C32_OwnCnameSetting ==
    \A i \in 1..Len(runObtainLog) :
       runObtainLog[i].env
          = FormatBool(runs[runObtainLog[i].run].request.DisableFollowCNAME)

(***************************************************************************)
(* Claims about CertificateRepository.DeleteWhere                          *)
(***************************************************************************)

\* C36: DeleteWhere returns an error whenever the lookup failed or a delete
\* failed; it attempts every record found, also after a failed delete; and
\* the count it returns is the number of records it deleted.
C36_EveryFailureReported ==
    del.pc = "back"
        => /\ (del.findFailed \/ del.errs # <<>>) => del.result.err # Nil
           /\ ~del.findFailed => del.attempted = del.records
           /\ del.result.ret = Cardinality(del.deleted)

====
